---- MODULE Spec2Model ----
(***************************************************************************)
(* RiskAdvisor: the portfolio optimizer (core/optimizer.py), the           *)
(* adversarial validator (adversarial/war_gaming.py) and the multi-horizon *)
(* scheduler (horizons/multi_horizon.py).                                  *)
(*                                                                         *)
(* Numbers.  Costs, budgets, days and risk-reduction percentages are       *)
(* integers; every fraction the code computes in floating point (0.3 of a  *)
(* budget, a ratio of risk-reduction to cost, a percentage) is kept as an  *)
(* exact rational [num, den] with den > 0 and compared by                  *)
(* cross-multiplication.                                                   *)
(***************************************************************************)
EXTENDS Integers, Sequences, FiniteSets, Bags, TLC

VARIABLES
    strategies,     \* CoreOptimizer.strategies: the catalog, a list of Strategy
    budget_limit,   \* the budget_limit argument of the optimizer calls
    cbc,            \* the answers of the CBC solver for this catalog and budget
    total_budget,   \* MultiHorizonOptimizer.total_budget
    strategy_horizons,  \* MultiHorizonOptimizer.strategy_horizons
    pc,             \* where the sensitivity_analysis call in progress stands
    frame,          \* the locals of that call
    observed,       \* what another run read from the catalog during that call
    rng,            \* numpy's global generator: the draws it has yet to give
    call,           \* the call in progress or just returned: its name and arguments
    returned        \* what that call returned, as a list of the returned objects

vars == <<strategies, budget_limit, cbc, total_budget, strategy_horizons,
          pc, frame, observed, rng, call, returned>>

\* the state of the engines, which the optimizer and the scheduler only read
engines == <<strategies, budget_limit, cbc, total_budget, strategy_horizons,
             pc, frame, observed, rng>>

None == "None"

(***************************************************************************)
(* Bounds of the model.                                                    *)
(***************************************************************************)
MaxStrategies == 2
MaxBudget == 4

(***************************************************************************)
(* Program constants.                                                      *)
(***************************************************************************)
NSolutions == 10
RiskCap == 95

Categories == {"maintenance", "training", "process", "technology", "policy"}
RiskTolerances == {"aggressive", "balanced", "conservative"}

(***************************************************************************)
(* Rationals.                                                              *)
(***************************************************************************)
Rat(n, d) == [num |-> n, den |-> d]
RatLeq(a, b) == a.num * b.den <= b.num * a.den
RatLess(a, b) == a.num * b.den < b.num * a.den
RatEq(a, b) == a.num * b.den = b.num * a.den

RECURSIVE SumF(_, _)
SumF(f, S) ==
    IF S = {} THEN 0
    ELSE LET x == CHOOSE y \in S : TRUE IN f[x] + SumF(f, S \ {x})

RECURSIVE MaxF(_, _, _)
MaxF(f, S, default) ==
    IF S = {} THEN default
    ELSE LET x == CHOOSE y \in S : TRUE
             m == MaxF(f, S \ {x}, default)
         IN IF S \ {x} = {} \/ f[x] > m THEN f[x] ELSE m

\* body(v) with v bound to the value of `value`, which is evaluated once
Let(value, body(_)) == CHOOSE r \in {body(v) : v \in {value}} : TRUE

Min2(a, b) == IF a <= b THEN a ELSE b
Max2(a, b) == IF a >= b THEN a ELSE b

(***************************************************************************)
(* Strategy.  The cost and time ranges are degenerate (cost_min = cost_max *)
(* and confidence = 1), so that get_cost_distribution returns the point    *)
(* estimate and monte_carlo_analysis is a function of the portfolio.       *)
(***************************************************************************)
Strategy(i, cat, rr, cost, time) ==
    [id |-> i, category |-> cat, risk_reduction_pct |-> rr,
     cost_estimate |-> cost, time_estimate |-> time]

Positions(cat) == 1 .. Len(cat)
IdsOf(cat) == {cat[i].id : i \in Positions(cat)}
Costs(cat) == [i \in Positions(cat) |-> cat[i].cost_estimate]
Risks(cat) == [i \in Positions(cat) |-> cat[i].risk_reduction_pct]
Times(cat) == [i \in Positions(cat) |-> cat[i].time_estimate]

(***************************************************************************)
(* The 0/1 program of optimize_single_objective and its solver.            *)
(* A decision is the set X of ids whose variable x[id] is 1.               *)
(***************************************************************************)
LpTerm(cat, X, f) == [i \in Positions(cat) |-> IF cat[i].id \in X THEN f[i] ELSE 0]
LpSum(cat, X, f) == SumF(LpTerm(cat, X, f), Positions(cat))

\* a program without its budget constraint
BudgetConstraintDropped(cat, X, budget) == TRUE

\* prob += lpSum(cost_estimate * x) <= budget_limit
BudgetConstraint(cat, X, budget) == RatLeq(Rat(LpSum(cat, X, Costs(cat)), 1), budget)

\* the objective function, and whether a beats b under the problem's sense
ObjectiveValue(cat, X, objective) ==
    CASE objective = "risk_reduction" -> LpSum(cat, X, Risks(cat))
      [] objective = "cost" -> LpSum(cat, X, Costs(cat))
      [] objective = "timeline" -> LpSum(cat, X, Times(cat))
      [] OTHER -> 0

\* a problem that keeps the sense LpMaximize it was created with
NotWorseMaximize(objective, a, b) == a >= b

NotWorse(objective, a, b) ==
    IF objective \in {"cost", "timeline"} THEN a <= b ELSE a >= b

Decisions(cat) == SUBSET IdsOf(cat)

\* the feasible decisions, each with its objective value
FeasibleValued(cat, objective, budget) ==
    {<<X, ObjectiveValue(cat, X, objective)>> :
        X \in {Y \in Decisions(cat) : BudgetConstraint(cat, Y, budget)}}

\* the optimal solutions of the program: the decisions CBC may return
OptimalDecisions(cat, objective, budget) ==
    UNION {{p[1] : p \in {q \in fv : \A r \in fv : NotWorse(objective, q[2], r[2])}} :
              fv \in {FeasibleValued(cat, objective, budget)}}

\* the values of x that prob.solve leaves behind.  The status of the solve is
\* never read: when the program is infeasible the values are whatever CBC
\* wrote for its last, infeasible, point, and any variable may read as 1.
SolverOutcomes(cat, objective, budget) ==
    IF \A X \in Decisions(cat) : ~BudgetConstraint(cat, X, budget)
    THEN Decisions(cat)
    ELSE OptimalDecisions(cat, objective, budget)

(***************************************************************************)
(* CBC is deterministic, but which of several optimal decisions it returns *)
(* is not specified.  A bias (a set of ids it would rather select) fixes   *)
(* the choice: among the optimal decisions the one agreeing with the bias  *)
(* on the lowest id, then on the next, and so on.  Every optimal decision  *)
(* of a problem is the choice of some bias.                                *)
(***************************************************************************)
SetMin(S) == CHOOSE m \in S : \A k \in S : m <= k

Preferred(cands, bias) ==
    CHOOSE X \in UNION {{Z \in cs : \A Y \in cs \ {Z} :
                             LET d == SetMin((Z \ Y) \cup (Y \ Z))
                             IN (d \in Z) <=> (d \in bias)} : cs \in {cands}} : TRUE

\* prob.solve(pulp.PULP_CBC_CMD(msg=0))
Solve(cat, objective, budget, bias) ==
    Preferred(SolverOutcomes(cat, objective, budget), bias)

\* a sweep that starts at half of budget_limit
BudgetStepFromHalf(limit, i) ==
    Rat(limit * (5 * (NSolutions - 1) + 5 * (i - 1)), 10 * (NSolutions - 1))

\* np.linspace(budget_limit * 0.3, budget_limit, n_solutions)[i - 1]
BudgetStep(limit, i) ==
    Rat(limit * (3 * (NSolutions - 1) + 7 * (i - 1)), 10 * (NSolutions - 1))

\* the decisions the solver may leave at budget_steps[1 .. n]
RECURSIVE SweepOptima(_, _, _)
SweepOptima(cat, limit, n) ==
    IF n = 0 THEN <<>>
    ELSE Append(SweepOptima(cat, limit, n - 1),
                SolverOutcomes(cat, "risk_reduction", BudgetStep(limit, n)))

\* what the solver may answer along the budgets of the sweep: one list of
\* decisions per bias, answers[i] = Solve(cat, "risk_reduction", budget_steps[i], bias)
SolverAnswers(cat, limit) ==
    UNION {{[i \in 1 .. NSolutions |-> Preferred(optima[i], bias)] :
               bias \in SUBSET IdsOf(cat)} :
           optima \in {SweepOptima(cat, limit, NSolutions)}}

(***************************************************************************)
(* CoreOptimizer                                                           *)
(***************************************************************************)
\* a selection that lists every selected strategy twice
ExtractSelectedTwice(cat, X) ==
    SelectSeq(cat, LAMBDA s : s.id \in X) \o SelectSeq(cat, LAMBDA s : s.id \in X)

\* selected = [s for s in self.strategies if pulp.value(x[s.id]) == 1]
ExtractSelected(cat, X) == SelectSeq(cat, LAMBDA s : s.id \in X)

SeqSum(sel, field) ==
    SumF([i \in 1 .. Len(sel) |-> sel[i][field]], 1 .. Len(sel))

OptimizationResult(sel, budget) ==
    LET total_cost == SeqSum(sel, "cost_estimate")
        total_risk_reduction == SeqSum(sel, "risk_reduction_pct")
        total_time == MaxF([i \in 1 .. Len(sel) |-> sel[i].time_estimate],
                           1 .. Len(sel), 0)
    IN [selected_strategies |-> sel,
        total_cost |-> total_cost,
        total_risk_reduction |-> Min2(total_risk_reduction, RiskCap),
        total_timeline_days |-> total_time,
        pareto_rank |-> 1,
        constraints_satisfied |-> {<<"budget", RatLeq(Rat(total_cost, 1), budget)>>},
        cost_p5 |-> 0, cost_p95 |-> 0,
        risk_reduction_p5 |-> 0, risk_reduction_p95 |-> 0]

\* optimize_single_objective, given the decision X the solver returned
optimize_single_objective(cat, X, budget) ==
    Let(ExtractSelected(cat, X), LAMBDA selected : OptimizationResult(selected, budget))

Dominates(other, sol) ==
    /\ other.total_risk_reduction >= sol.total_risk_reduction
    /\ other.total_cost <= sol.total_cost
    /\ other.total_timeline_days <= sol.total_timeline_days
    /\ \/ other.total_risk_reduction > sol.total_risk_reduction
       \/ other.total_cost < sol.total_cost
       \/ other.total_timeline_days < sol.total_timeline_days

IsDominated(sol, solutions) ==
    \E j \in 1 .. Len(solutions) : Dominates(solutions[j], sol)

\* a filter that keeps every solution of the sweep
filter_dominated_keep_all(solutions) == solutions

filter_dominated(solutions) ==
    SelectSeq(solutions, LAMBDA sol : ~IsDominated(sol, solutions))

AssignRanks(sols) == [i \in 1 .. Len(sols) |-> [sols[i] EXCEPT !.pareto_rank = i]]

\* the loop of optimize_pareto over budget_steps[1 .. n]
RECURSIVE SweepSolutions(_, _, _, _)
SweepSolutions(cat, answers, limit, n) ==
    IF n = 0 THEN <<>>
    ELSE Append(SweepSolutions(cat, answers, limit, n - 1),
                optimize_single_objective(cat, answers[n], BudgetStep(limit, n)))

\* optimize_pareto, given the solver's answers along the sweep
optimize_pareto(cat, answers, limit) ==
    Let(SweepSolutions(cat, answers, limit, NSolutions),
        LAMBDA pareto_solutions :
            Let(filter_dominated(pareto_solutions),
                LAMBDA non_dominated : AssignRanks(non_dominated)))

\* monte_carlo_analysis on point distributions: every draw is the estimate
monte_carlo_analysis(result) ==
    LET sel == result.selected_strategies
        cost == SeqSum(sel, "cost_estimate")
        risk == Min2(SeqSum(sel, "risk_reduction_pct"), RiskCap)
    IN [result EXCEPT !.cost_p5 = cost, !.cost_p95 = cost,
                      !.risk_reduction_p5 = risk, !.risk_reduction_p95 = risk]

\* max(seq, key) and min(seq, key) of Python: the first element with the best key
RECURSIVE FirstBest(_, _, _, _)
FirstBest(seq, key(_), better(_, _), i) ==
    IF i = 1 THEN 1
    ELSE LET b == FirstBest(seq, key, better, i - 1)
         IN IF better(key(seq[i]), key(seq[b])) THEN i ELSE b

KeyRisk(x) == Rat(x.total_risk_reduction, 1)
KeyCost(x) == Rat(x.total_cost, 1)
KeyRatio(x) ==
    IF x.total_cost > 0 THEN Rat(x.total_risk_reduction, x.total_cost) ELSE Rat(0, 1)
Greater(a, b) == RatLess(b, a)

EmptyResult ==
    [selected_strategies |-> <<>>, total_cost |-> 0, total_risk_reduction |-> 0,
     total_timeline_days |-> 0, pareto_rank |-> 1, constraints_satisfied |-> {},
     cost_p5 |-> 0, cost_p95 |-> 0, risk_reduction_p5 |-> 0, risk_reduction_p95 |-> 0]

NotLess(a, b) == RatLeq(b, a)

\* a selection that returns the last of several equally good portfolios
SelectByToleranceLast(frontier, risk_tolerance) ==
    CASE risk_tolerance = "aggressive" ->
            frontier[FirstBest(frontier, KeyRisk, NotLess, Len(frontier))]
      [] risk_tolerance = "conservative" ->
            frontier[FirstBest(frontier, KeyCost, RatLeq, Len(frontier))]
      [] OTHER ->
            frontier[FirstBest(frontier, KeyRatio, NotLess, Len(frontier))]

\* a selection whose conservative branch takes the dearest portfolio
SelectByToleranceDearest(frontier, risk_tolerance) ==
    CASE risk_tolerance = "aggressive" ->
            frontier[FirstBest(frontier, KeyRisk, Greater, Len(frontier))]
      [] risk_tolerance = "conservative" ->
            frontier[FirstBest(frontier, KeyCost, Greater, Len(frontier))]
      [] OTHER ->
            frontier[FirstBest(frontier, KeyRatio, Greater, Len(frontier))]

SelectByTolerance(frontier, risk_tolerance) ==
    CASE risk_tolerance = "aggressive" ->
            frontier[FirstBest(frontier, KeyRisk, Greater, Len(frontier))]
      [] risk_tolerance = "conservative" ->
            frontier[FirstBest(frontier, KeyCost, RatLess, Len(frontier))]
      [] OTHER ->
            frontier[FirstBest(frontier, KeyRatio, Greater, Len(frontier))]

get_optimal_portfolio(cat, answers, limit, risk_tolerance) ==
    Let(optimize_pareto(cat, answers, limit),
        LAMBDA frontier :
            IF frontier = <<>> THEN EmptyResult
            ELSE monte_carlo_analysis(SelectByTolerance(frontier, risk_tolerance)))

(***************************************************************************)
(* The optimizer as a state machine.  A CoreOptimizer is constructed over  *)
(* a catalog; a caller makes one call at a time with a budget_limit, the   *)
(* call leaves its return value in `returned`, and the caller drops it     *)
(* before the next call.  The optimizer keeps no state between calls.      *)
(***************************************************************************)
CostValues == {0, 1, 2}
RiskValues == {50, 95}
TimeValues == {10, 90}

StrategyAttrs(costs, risks, times, cats) ==
    [cost : costs, rr : risks, time : times, cat : cats]

\* the catalogs of n strategies with attributes drawn from attrs; ids are unique
CatalogsOf(attrs, n) ==
    {[i \in 1 .. n |-> Strategy(i, f[i].cat, f[i].rr, f[i].cost, f[i].time)] :
        f \in [1 .. n -> attrs]}

Catalogs(attrs, maxlen) == UNION {CatalogsOf(attrs, n) : n \in 0 .. maxlen}

NoCall == [op |-> "none", arg |-> None]
Call(op, arg) == [op |-> op, arg |-> arg]

InitOptimizer ==
    /\ strategies \in Catalogs(StrategyAttrs(CostValues, RiskValues, TimeValues,
                                             {"process"}), MaxStrategies)
    /\ budget_limit \in 0 .. MaxBudget
    /\ cbc \in SolverAnswers(strategies, budget_limit)
    /\ total_budget = None
    /\ strategy_horizons = None
    /\ pc = "idle"
    /\ frame = <<>>
    /\ observed = <<>>
    /\ rng = None
    /\ call = NoCall
    /\ returned = <<>>

OptimizeSingleObjective ==
    /\ pc = "idle"
    /\ call.op = "none"
    /\ call' = Call("optimize_single_objective", "risk_reduction")
    /\ returned' = <<optimize_single_objective(strategies, cbc[NSolutions],
                                               Rat(budget_limit, 1))>>
    /\ UNCHANGED engines

OptimizePareto ==
    /\ pc = "idle"
    /\ call.op = "none"
    /\ call' = Call("optimize_pareto", None)
    /\ returned' = optimize_pareto(strategies, cbc, budget_limit)
    /\ UNCHANGED engines

GetOptimalPortfolio(risk_tolerance) ==
    /\ pc = "idle"
    /\ call.op = "none"
    /\ call' = Call("get_optimal_portfolio", risk_tolerance)
    /\ returned' = <<get_optimal_portfolio(strategies, cbc, budget_limit,
                                           risk_tolerance)>>
    /\ UNCHANGED engines

\* the caller drops the returned value
Discard ==
    /\ pc = "idle"
    /\ call.op # "none"
    /\ call' = NoCall
    /\ returned' = <<>>
    /\ UNCHANGED engines

NextOptimizer ==
    \/ OptimizeSingleObjective
    \/ OptimizePareto
    \/ \E t \in RiskTolerances : GetOptimalPortfolio(t)
    \/ Discard

Spec == InitOptimizer /\ [][NextOptimizer]_vars

(***************************************************************************)
(* The optimizer under budgets that nothing, or not even the empty         *)
(* selection, fits in: budget_limit is a float the caller passes and is    *)
(* not checked.                                                            *)
(***************************************************************************)
AnyBudgets == {-1, 0, 1, 3}
PositiveCosts == {1, 2}

InitAnyBudget ==
    /\ strategies \in Catalogs(StrategyAttrs(PositiveCosts, RiskValues, TimeValues,
                                             {"process"}), MaxStrategies)
    /\ budget_limit \in AnyBudgets
    /\ cbc \in SolverAnswers(strategies, budget_limit)
    /\ total_budget = None
    /\ strategy_horizons = None
    /\ pc = "idle"
    /\ frame = <<>>
    /\ observed = <<>>
    /\ rng = None
    /\ call = NoCall
    /\ returned = <<>>

NextAnyBudget ==
    \/ OptimizeSingleObjective
    \/ OptimizePareto
    \/ \E t \in RiskTolerances : GetOptimalPortfolio(t)
    \/ Discard

SpecAnyBudget == InitAnyBudget /\ [][NextAnyBudget]_vars

(***************************************************************************)
(* The optimizer called with every argument of its signatures: objective,  *)
(* budget_limit and timeline_limit.  The problem handed to CBC is the      *)
(* objective of the branch taken and the constraints added to prob; CBC    *)
(* answers a problem by its feasible set and objective, so here cbc holds  *)
(* the bias that fixes its choice among equally good decisions.            *)
(***************************************************************************)
TimelineLimits == {30, 365}
Objectives == {"risk_reduction", "cost", "timeline"}

\* the selected strategies run in parallel: max(time_estimate), default 0
Timeline(cat, X) ==
    MaxF([i \in Positions(cat) |-> IF cat[i].id \in X THEN cat[i].time_estimate ELSE 0],
         Positions(cat), 0)

\* a problem that also bounds the timeline of the selection
ConstraintsWithTimeline(cat, X, budget, timeline_limit) ==
    BudgetConstraint(cat, X, budget) /\ Timeline(cat, X) <= timeline_limit

\* the constraints added to prob: the budget constraint, and under the
\* heading "Timeline constraint" a comment only
Constraints(cat, X, budget, timeline_limit) == BudgetConstraint(cat, X, budget)

\* the decisions prob.solve may leave behind for the problem as built
ProblemOutcomes(cat, objective, budget, timeline_limit) ==
    LET feasible == {X \in Decisions(cat) : Constraints(cat, X, budget, timeline_limit)}
    IN IF feasible = {} THEN Decisions(cat)
       ELSE {X \in feasible : \A Y \in feasible :
                NotWorse(objective, ObjectiveValue(cat, X, objective),
                                    ObjectiveValue(cat, Y, objective))}

\* optimize_single_objective(objective, budget_limit, timeline_limit)
optimize_single_objective_args(cat, objective, budget, timeline_limit, bias) ==
    optimize_single_objective(
        cat, Preferred(ProblemOutcomes(cat, objective, budget, timeline_limit), bias),
        budget)

\* optimize_pareto(budget_limit, timeline_limit)
optimize_pareto_args(cat, limit, timeline_limit, bias) ==
    Let([i \in 1 .. NSolutions |->
            optimize_single_objective_args(cat, "risk_reduction", BudgetStep(limit, i),
                                           timeline_limit, bias)],
        LAMBDA pareto_solutions :
            Let(filter_dominated(pareto_solutions),
                LAMBDA non_dominated : AssignRanks(non_dominated)))

\* get_optimal_portfolio(budget_limit, timeline_limit, risk_tolerance)
get_optimal_portfolio_args(cat, limit, timeline_limit, risk_tolerance, bias) ==
    Let(optimize_pareto_args(cat, limit, timeline_limit, bias),
        LAMBDA frontier :
            IF frontier = <<>> THEN EmptyResult
            ELSE monte_carlo_analysis(SelectByTolerance(frontier, risk_tolerance)))

ArgumentAttrs ==
    {[cost |-> 0, rr |-> 50, time |-> 10, cat |-> "process"],
     [cost |-> 1, rr |-> 50, time |-> 90, cat |-> "process"],
     [cost |-> 2, rr |-> 95, time |-> 10, cat |-> "process"]}
ArgumentBudgets == {0, 1, 3}

InitArguments ==
    /\ strategies \in Catalogs(ArgumentAttrs, MaxStrategies)
    /\ budget_limit \in ArgumentBudgets
    /\ cbc \in SUBSET IdsOf(strategies)
    /\ total_budget = None
    /\ strategy_horizons = None
    /\ pc = "idle"
    /\ frame = <<>>
    /\ observed = <<>>
    /\ rng = None
    /\ call = NoCall
    /\ returned = <<>>

CallSingleObjective(objective, timeline_limit) ==
    /\ pc = "idle"
    /\ call.op = "none"
    /\ call' = Call("optimize_single_objective",
                    [objective |-> objective, timeline_limit |-> timeline_limit])
    /\ returned' = <<optimize_single_objective_args(
                        strategies, objective, Rat(budget_limit, 1), timeline_limit, cbc)>>
    /\ UNCHANGED engines

CallPareto(timeline_limit) ==
    /\ pc = "idle"
    /\ call.op = "none"
    /\ call' = Call("optimize_pareto", [timeline_limit |-> timeline_limit])
    /\ returned' = optimize_pareto_args(strategies, budget_limit, timeline_limit, cbc)
    /\ UNCHANGED engines

CallOptimalPortfolio(timeline_limit, risk_tolerance) ==
    /\ pc = "idle"
    /\ call.op = "none"
    /\ call' = Call("get_optimal_portfolio",
                    [timeline_limit |-> timeline_limit, risk_tolerance |-> risk_tolerance])
    /\ returned' = <<get_optimal_portfolio_args(
                        strategies, budget_limit, timeline_limit, risk_tolerance, cbc)>>
    /\ UNCHANGED engines

NextArguments ==
    \/ \E o \in Objectives, l \in TimelineLimits : CallSingleObjective(o, l)
    \/ \E l \in TimelineLimits : CallPareto(l)
    \/ \E l \in TimelineLimits, t \in RiskTolerances : CallOptimalPortfolio(l, t)
    \/ Discard

SpecArguments == InitArguments /\ [][NextArguments]_vars

(***************************************************************************)
(* Building a catalog.  Strategy is a dataclass: its generated __init__    *)
(* stores the arguments in the fields and there is no __post_init__.  The  *)
(* caller builds a list of strategies, constructs a CoreOptimizer over it  *)
(* and calls it.                                                           *)
(***************************************************************************)
\* confidence: float = 0.85, in percent
DefaultConfidence == 85

\* Strategy(id=..., ...): the constructed object, in a list of one element; a
\* rejected construction would be the empty list
StrategyInit(id, category, risk_reduction_pct, cost_min, cost_max, cost_estimate, time_min, time_max, time_estimate) ==
    <<[id |-> id, category |-> category, risk_reduction_pct |-> risk_reduction_pct,
       confidence |-> DefaultConfidence,
       cost_min |-> cost_min, cost_max |-> cost_max, cost_estimate |-> cost_estimate,
       time_min |-> time_min, time_max |-> time_max, time_estimate |-> time_estimate]>>

BuiltCosts == {-1, 1, 2}
BuiltTimeBounds == {1, 3}
BuiltTimeEstimate == 2
BuiltBudget == 2

InitBuilding ==
    /\ strategies = <<>>
    /\ budget_limit = BuiltBudget
    /\ cbc = None
    /\ total_budget = None
    /\ strategy_horizons = None
    /\ pc = "building"
    /\ frame = <<>>
    /\ observed = <<>>
    /\ rng = None
    /\ call = NoCall
    /\ returned = <<>>

\* strategies.append(Strategy(...))
NewStrategy ==
    /\ pc = "building"
    /\ Len(strategies) < MaxStrategies
    /\ \E cost_min, cost_max, cost_estimate \in BuiltCosts :
         \E time_min, time_max \in BuiltTimeBounds :
           strategies' = strategies \o
               StrategyInit(Len(strategies) + 1, "process", 50,
                            cost_min, cost_max, cost_estimate,
                            time_min, time_max, BuiltTimeEstimate)
    /\ UNCHANGED <<budget_limit, cbc, total_budget, strategy_horizons, pc, frame,
                   observed, rng, call, returned>>

\* CoreOptimizer(strategies, []); the answers of CBC to the calls that follow
\* are fixed by the catalog and the budget
ConstructOptimizer ==
    /\ pc = "building"
    /\ pc' = "idle"
    /\ cbc' \in SolverAnswers(strategies, budget_limit)
    /\ UNCHANGED <<strategies, budget_limit, total_budget, strategy_horizons, frame,
                   observed, rng, call, returned>>

NextBuilding ==
    \/ NewStrategy
    \/ ConstructOptimizer
    \/ OptimizeSingleObjective
    \/ Discard

SpecBuilding == InitBuilding /\ [][NextBuilding]_vars

(***************************************************************************)
(* MultiHorizonOptimizer                                                   *)
(***************************************************************************)
Horizons == {"immediate", "tactical", "strategic"}

\* _configure_horizons: the fields of HorizonConfig that the scheduler reads
HorizonConfig(horizon) ==
    CASE horizon = "immediate" ->
            [max_days |-> 30, budget_fraction_min |-> Rat(10, 100),
             budget_fraction_max |-> Rat(40, 100),
             preferred_categories |-> {"process", "policy"}]
      [] horizon = "tactical" ->
            [max_days |-> 180, budget_fraction_min |-> Rat(30, 100),
             budget_fraction_max |-> Rat(50, 100),
             preferred_categories |-> {"training", "maintenance"}]
      [] horizon = "strategic" ->
            [max_days |-> 730, budget_fraction_min |-> Rat(20, 100),
             budget_fraction_max |-> Rat(50, 100),
             preferred_categories |-> {"technology"}]

\* a classification without the default of line 201
SuitableHorizonsNoDefault(strategy) ==
    (IF strategy.time_estimate <= 30 /\ strategy.cost_estimate < 50000
     THEN {"immediate"} ELSE {})
    \cup (IF 14 <= strategy.time_estimate /\ strategy.time_estimate <= 180
          THEN {"tactical"} ELSE {})
    \cup (IF strategy.time_estimate >= 60 \/ strategy.cost_estimate >= 200000
          THEN {"strategic"} ELSE {})
    \cup (IF strategy.category = "technology" THEN {"strategic"} ELSE {})

\* a classification whose tactical test has no lower bound on time_estimate
SuitableHorizonsNoLowerBound(strategy) ==
    LET found ==
            (IF strategy.time_estimate <= 30 /\ strategy.cost_estimate < 50000
             THEN {"immediate"} ELSE {})
            \cup (IF strategy.time_estimate <= 180 THEN {"tactical"} ELSE {})
            \cup (IF strategy.time_estimate >= 60 \/ strategy.cost_estimate >= 200000
                  THEN {"strategic"} ELSE {})
            \cup (IF strategy.category = "technology" THEN {"strategic"} ELSE {})
    IN IF found # {} THEN found ELSE {"tactical"}

\* the suitable_horizons of one strategy
SuitableHorizons(strategy) ==
    LET found ==
            (IF strategy.time_estimate <= 30 /\ strategy.cost_estimate < 50000
             THEN {"immediate"} ELSE {})
            \cup (IF 14 <= strategy.time_estimate /\ strategy.time_estimate <= 180
                  THEN {"tactical"} ELSE {})
            \cup (IF strategy.time_estimate >= 60 \/ strategy.cost_estimate >= 200000
                  THEN {"strategic"} ELSE {})
            \cup (IF strategy.category = "technology" THEN {"strategic"} ELSE {})
    IN IF found # {} THEN found ELSE {"tactical"}

\* classification[strategy.id] = ...: the last strategy of an id sets its entry
classify_strategies(cat) ==
    [id \in IdsOf(cat) |->
        LET last == CHOOSE i \in Positions(cat) :
                        /\ cat[i].id = id
                        /\ \A j \in Positions(cat) : j > i => cat[j].id # id
        IN SuitableHorizons(cat[last])]

\* a score without the bonus of the preferred categories
priority_score_plain(s, config) ==
    IF s.cost_estimate > 0 THEN Rat(s.risk_reduction_pct, s.cost_estimate) ELSE Rat(0, 1)

priority_score(s, config) ==
    IF s.cost_estimate > 0
    THEN IF s.category \in config.preferred_categories
         THEN Rat(3 * s.risk_reduction_pct, 2 * s.cost_estimate)
         ELSE Rat(s.risk_reduction_pct, s.cost_estimate)
    ELSE Rat(0, 1)

\* list.sort(key=priority_score, reverse=True): stable, highest score first
RECURSIVE SortByPriority(_, _, _)
SortByPriority(seq, config, n) ==
    IF n = 0 THEN <<>>
    ELSE LET sorted == SortByPriority(seq, config, n - 1)
             x == seq[n]
             k == Cardinality({i \in 1 .. Len(sorted) :
                      ~RatLess(priority_score(sorted[i], config),
                               priority_score(x, config))})
         IN SubSeq(sorted, 1, k) \o <<x>> \o SubSeq(sorted, k + 1, Len(sorted))

\* the greedy loop over the first n candidates
RECURSIVE GreedySelect(_, _, _)
GreedySelect(candidates, budget, n) ==
    IF n = 0 THEN <<>>
    ELSE LET selected == GreedySelect(candidates, budget, n - 1)
             total_cost == SeqSum(selected, "cost_estimate")
         IN IF RatLeq(Rat(total_cost + candidates[n].cost_estimate, 1), budget)
            THEN Append(selected, candidates[n])
            ELSE selected

ActionItem(horizon, s) ==
    CASE horizon = "immediate" -> <<"START NOW", s.id>>
      [] horizon = "tactical" -> <<"PLAN Q1/Q2", s.id>>
      [] OTHER -> <<"BUDGET FY", s.id>>

get_decision_deadline(horizon) ==
    CASE horizon = "immediate" -> "Decision required: TODAY"
      [] horizon = "tactical" -> "Decision required: This week"
      [] OTHER -> "Decision required: This quarter"

HorizonRiskCap == 50

HorizonPlan(horizon, selected) ==
    [horizon |-> horizon,
     strategies |-> selected,
     total_cost |-> SeqSum(selected, "cost_estimate"),
     risk_reduction |-> Min2(SeqSum(selected, "risk_reduction_pct"), HorizonRiskCap),
     timeline_days |-> MaxF([i \in 1 .. Len(selected) |-> selected[i].time_estimate],
                            1 .. Len(selected), 0),
     action_items |-> [i \in 1 .. Len(selected) |-> ActionItem(horizon, selected[i])],
     dependencies |-> <<>>,
     decision_deadline |-> get_decision_deadline(horizon)]

\* the candidates of a horizon: not excluded, eligible, short enough
SuitableStrategies(cat, classification, horizon, excluded) ==
    SelectSeq(cat, LAMBDA s :
        /\ s.id \notin excluded
        /\ horizon \in classification[s.id]
        /\ s.time_estimate <= HorizonConfig(horizon).max_days)

\* a horizon that takes every candidate, whatever it costs
optimize_horizon_all(cat, classification, horizon, budget, excluded) ==
    LET suitable_strategies == SuitableStrategies(cat, classification, horizon, excluded)
    IN HorizonPlan(horizon, SortByPriority(suitable_strategies, HorizonConfig(horizon),
                                           Len(suitable_strategies)))

optimize_horizon(cat, classification, horizon, budget, excluded) ==
    LET suitable_strategies == SuitableStrategies(cat, classification, horizon, excluded)
        ranked == SortByPriority(suitable_strategies, HorizonConfig(horizon),
                                 Len(suitable_strategies))
    IN HorizonPlan(horizon, GreedySelect(ranked, budget, Len(ranked)))

SelectedIds(plan) == {plan.strategies[i].id : i \in 1 .. Len(plan.strategies)}

\* budget_allocation when the caller gives none
RecommendedAllocation(total) ==
    [h \in Horizons |->
        CASE h = "immediate" -> Rat(total * 25, 100)
          [] h = "tactical" -> Rat(total * 45, 100)
          [] h = "strategic" -> Rat(total * 30, 100)]

analyze_tradeoffs(immediate, tactical, strategic) ==
    [quick_fix_value |-> immediate.risk_reduction,
     quick_fix_cost |-> immediate.total_cost,
     sustainable_value |-> tactical.risk_reduction + strategic.risk_reduction,
     sustainable_cost |-> tactical.total_cost + strategic.total_cost,
     quick_fix_cost_effectiveness |->
        IF immediate.total_cost > 0
        THEN Rat(immediate.risk_reduction * 1000, immediate.total_cost)
        ELSE Rat(0, 1),
     sustainable_cost_effectiveness |->
        IF tactical.total_cost + strategic.total_cost > 0
        THEN Rat((tactical.risk_reduction + strategic.risk_reduction) * 1000,
                 tactical.total_cost + strategic.total_cost)
        ELSE Rat(0, 1)]

generate_phase_sequence(immediate, tactical, strategic) ==
    (IF immediate.strategies # <<>> THEN <<1>> ELSE <<>>)
    \o (IF tactical.strategies # <<>> THEN <<2>> ELSE <<>>)
    \o (IF strategic.strategies # <<>> THEN <<3>> ELSE <<>>)

identify_dependencies(tactical, strategic) ==
    {<<strategic.strategies[i].id, tactical.strategies[j].id>> :
        <<i, j>> \in {p \in (1 .. Len(strategic.strategies)) \X (1 .. Len(tactical.strategies)) :
                        /\ strategic.strategies[p[1]].category = "technology"
                        /\ tactical.strategies[p[2]].category = "training"}}

\* the ids a later horizon excludes, after the plan of an earlier one
used_strategies_unused(used, plan) == used

used_strategies_extend(used, plan) == used \cup SelectedIds(plan)

\* a plan whose total is the plain sum of its horizons
MultiHorizonPlanUncapped(immediate, tactical, strategic) ==
    [immediate_plan |-> immediate,
     tactical_plan |-> tactical,
     strategic_plan |-> strategic,
     total_cost |-> immediate.total_cost + tactical.total_cost + strategic.total_cost,
     total_risk_reduction |->
        immediate.risk_reduction + tactical.risk_reduction + strategic.risk_reduction,
     immediate_vs_sustainable_tradeoff |-> analyze_tradeoffs(immediate, tactical, strategic),
     phase_sequence |-> generate_phase_sequence(immediate, tactical, strategic),
     cross_horizon_dependencies |-> identify_dependencies(tactical, strategic)]

MultiHorizonPlan(immediate, tactical, strategic) ==
    [immediate_plan |-> immediate,
     tactical_plan |-> tactical,
     strategic_plan |-> strategic,
     total_cost |-> immediate.total_cost + tactical.total_cost + strategic.total_cost,
     total_risk_reduction |->
        Min2(immediate.risk_reduction + tactical.risk_reduction
                 + strategic.risk_reduction, RiskCap),
     immediate_vs_sustainable_tradeoff |-> analyze_tradeoffs(immediate, tactical, strategic),
     phase_sequence |-> generate_phase_sequence(immediate, tactical, strategic),
     cross_horizon_dependencies |-> identify_dependencies(tactical, strategic)]

\* budget_allocation is <<>> for None, or <<d>> for a dict d with a budget for
\* each horizon
optimize_all_horizons(cat, classification, total, budget_allocation) ==
    LET allocation == IF budget_allocation = <<>>
                      THEN RecommendedAllocation(total) ELSE budget_allocation[1]
        immediate == optimize_horizon(cat, classification, "immediate",
                                      allocation["immediate"], {})
        used1 == used_strategies_extend({}, immediate)
        tactical == optimize_horizon(cat, classification, "tactical",
                                     allocation["tactical"], used1)
        used2 == used_strategies_extend(used1, tactical)
        strategic == optimize_horizon(cat, classification, "strategic",
                                      allocation["strategic"], used2)
    IN MultiHorizonPlan(immediate, tactical, strategic)

(***************************************************************************)
(* The scheduler as a state machine.  A MultiHorizonOptimizer is           *)
(* constructed over a catalog and a total budget; the constructor          *)
(* classifies the strategies.  Nothing validates the catalog, so two       *)
(* strategies may carry the same id.                                       *)
(***************************************************************************)
\* the strategies a catalog is made of: [time, cost, category, risk reduction]
HorizonAttrs ==
    {[time |-> k[1], cost |-> k[2], cat |-> k[3], rr |-> k[4]] :
        k \in {<<10, 10000, "process", 30>>,
               <<20, 10000, "process", 30>>,
               <<20, 20000, "technology", 40>>,
               <<20, 0, "policy", 10>>,
               <<10, 60000, "training", 30>>,
               <<90, 40000, "training", 40>>,
               <<90, 30000, "maintenance", 30>>,
               <<200, 100000, "technology", 40>>,
               <<800, 250000, "technology", 60>>,
               <<10, 250000, "process", 60>>,
               <<30, 50000, "process", 30>>,
               <<60, 200000, "policy", 50>>}}

\* the ids of a catalog of n strategies: strategy i is i, or a second "1"
IdMaps(n) == {f \in [1 .. n -> 1 .. n] : \A i \in 1 .. n : f[i] \in {1, i}}

HorizonCatalogs(attrs, maxlen) ==
    UNION {{[i \in 1 .. Len(cat) |-> [cat[i] EXCEPT !.id = f[i]]] :
                f \in IdMaps(Len(cat))} : cat \in Catalogs(attrs, maxlen)}

TotalBudgets == {100000, 500000}
HorizonBudgets == {Rat(30000, 1), Rat(120000, 1)}

\* the allocations a caller may give: the least and the greatest fractions of
\* the configuration, and the whole budget on one horizon
CustomAllocations(total) ==
    {[h \in Horizons |-> Rat(total * HorizonConfig(h).budget_fraction_min.num, 100)],
     [h \in Horizons |-> Rat(total * HorizonConfig(h).budget_fraction_max.num, 100)]}
    \cup {[h \in Horizons |-> IF h = one THEN Rat(total, 1) ELSE Rat(0, 1)] :
             one \in Horizons}

InitHorizons ==
    /\ strategies \in HorizonCatalogs(HorizonAttrs, MaxStrategies)
    /\ total_budget \in TotalBudgets
    /\ strategy_horizons = classify_strategies(strategies)
    /\ budget_limit = None
    /\ cbc = None
    /\ pc = "idle"
    /\ frame = <<>>
    /\ observed = <<>>
    /\ rng = None
    /\ call = NoCall
    /\ returned = <<>>

OptimizeHorizon(horizon, budget, excluded) ==
    /\ pc = "idle"
    /\ call.op = "none"
    /\ call' = Call("optimize_horizon",
                    [horizon |-> horizon, budget |-> budget, excluded |-> excluded])
    /\ returned' = <<optimize_horizon(strategies, strategy_horizons, horizon,
                                      budget, excluded)>>
    /\ UNCHANGED engines

OptimizeAllHorizons(budget_allocation) ==
    /\ pc = "idle"
    /\ call.op = "none"
    /\ call' = Call("optimize_all_horizons", budget_allocation)
    /\ returned' = <<optimize_all_horizons(strategies, strategy_horizons,
                                           total_budget, budget_allocation)>>
    /\ UNCHANGED engines

NextHorizons ==
    \/ \E h \in Horizons, b \in HorizonBudgets :
          \E excluded \in {{}} \cup {{id} : id \in IdsOf(strategies)} :
              OptimizeHorizon(h, b, excluded)
    \/ OptimizeAllHorizons(<<>>)
    \/ \E a \in CustomAllocations(total_budget) : OptimizeAllHorizons(<<a>>)
    \/ Discard

SpecHorizons == InitHorizons /\ [][NextHorizons]_vars

\* The construction of a scheduler, lines 120-134, over strategies on both
\* sides of every threshold of the classification.
MaxClassified == 1
BoundaryDays == {13, 14, 30, 31, 59, 60, 180, 181}
BoundaryCosts == {49999, 50000, 199999, 200000}

BoundaryAttrs ==
    [time : BoundaryDays, cost : BoundaryCosts, cat : {"process", "technology"},
     rr : {30}]

InitClassifying ==
    /\ strategies \in HorizonCatalogs(BoundaryAttrs, MaxClassified)
    /\ total_budget \in TotalBudgets
    /\ strategy_horizons = None
    /\ budget_limit = None
    /\ cbc = None
    /\ pc = "constructing"
    /\ frame = <<>>
    /\ observed = <<>>
    /\ rng = None
    /\ call = NoCall
    /\ returned = <<>>

ConstructScheduler ==
    /\ pc = "constructing"
    /\ strategy_horizons' = classify_strategies(strategies)
    /\ pc' = "idle"
    /\ UNCHANGED <<strategies, budget_limit, cbc, total_budget, frame, observed, rng,
                   call, returned>>

NextClassifying ==
    \/ ConstructScheduler
    \/ OptimizeAllHorizons(<<>>)
    \/ Discard

SpecClassifying == InitClassifying /\ [][NextClassifying]_vars

(***************************************************************************)
(* ExecutiveInterface constructs a CoreOptimizer and a                     *)
(* MultiHorizonOptimizer over the same catalog and the same budget, which  *)
(* it passes as budget_limit to the optimizer.                             *)
(***************************************************************************)
PlatformAttrs == {a \in HorizonAttrs : a.cost <= 60000}

InitPlatform ==
    /\ strategies \in HorizonCatalogs(PlatformAttrs, MaxStrategies)
    /\ total_budget \in TotalBudgets
    /\ budget_limit = total_budget
    /\ cbc \in SolverAnswers(strategies, budget_limit)
    /\ strategy_horizons = classify_strategies(strategies)
    /\ pc = "idle"
    /\ frame = <<>>
    /\ observed = <<>>
    /\ rng = None
    /\ call = NoCall
    /\ returned = <<>>

NextPlatform ==
    \/ OptimizeSingleObjective
    \/ OptimizePareto
    \/ \E t \in RiskTolerances : GetOptimalPortfolio(t)
    \/ \E h \in Horizons, b \in HorizonBudgets :
          \E excluded \in {{}} \cup {{id} : id \in IdsOf(strategies)} :
              OptimizeHorizon(h, b, excluded)
    \/ OptimizeAllHorizons(<<>>)
    \/ \E a \in CustomAllocations(total_budget) : OptimizeAllHorizons(<<a>>)
    \/ Discard

SpecPlatform == InitPlatform /\ [][NextPlatform]_vars

\* the same platform over strategies whose risk reductions add up beyond the
\* caps: [time, cost, category, risk reduction]
CappedAttrs ==
    {[time |-> k[1], cost |-> k[2], cat |-> k[3], rr |-> k[4]] :
        k \in {<<10, 10000, "process", 60>>,
               <<90, 40000, "training", 60>>,
               <<20, 10000, "process", 30>>,
               <<20, 20000, "technology", 40>>}}

InitCapped ==
    /\ strategies \in HorizonCatalogs(CappedAttrs, MaxStrategies)
    /\ total_budget \in TotalBudgets
    /\ budget_limit = total_budget
    /\ cbc \in SolverAnswers(strategies, budget_limit)
    /\ strategy_horizons = classify_strategies(strategies)
    /\ pc = "idle"
    /\ frame = <<>>
    /\ observed = <<>>
    /\ rng = None
    /\ call = NoCall
    /\ returned = <<>>

SpecCapped == InitCapped /\ [][NextPlatform]_vars

\* a budget taken from the catalog as it was before the perturbation
CatalogCostAtEntry == SeqSum(frame.catalog_at_entry, "cost_estimate")

\* sum(s.cost_estimate for s in self.strategies)
CatalogCost == SeqSum(strategies, "cost_estimate")

(***************************************************************************)
(* CoreOptimizer.sensitivity_analysis, statement by statement.  The        *)
(* portfolio it is given was returned by this optimizer, so its            *)
(* selected_strategies are the Strategy objects of the catalog: the model  *)
(* keeps them as positions in `strategies`.  An object is the function     *)
(* from its attribute names to their values, so that setattr can add a     *)
(* name.  Costs and days are multiples of 5 here, which keeps the          *)
(* perturbed value original * 1.2 an integer.                              *)
(***************************************************************************)
\* getattr(obj, name, default)
GetAttr(obj, name, default) == IF name \in DOMAIN obj THEN obj[name] ELSE default

\* setattr(obj, name, value)
SetAttr(obj, name, value) ==
    [a \in (DOMAIN obj) \cup {name} |-> IF a = name THEN value ELSE obj[a]]

\* f"{parameter}_estimate"
EstimateAttr(parameter) ==
    CASE parameter = "cost" -> "cost_estimate"
      [] parameter = "time" -> "time_estimate"
      [] parameter = "risk_reduction" -> "risk_reduction_estimate"

Parameters == {"cost", "time", "risk_reduction"}

\* original * 1.2
Perturbed(original) == (original * 6) \div 5

\* the positions in the catalog of the strategies of a portfolio
SelectedPositions(cat, result) ==
    SelectSeq([p \in Positions(cat) |-> p],
              LAMBDA p : \E k \in 1 .. Len(result.selected_strategies) :
                             result.selected_strategies[k].id = cat[p].id)

NoFrame == <<>>

\* line 334-335: the call binds its locals; catalog_at_entry records the
\* catalog as the caller passed it
SensitivityAnalysis(r, parameter) ==
    /\ pc = "idle"
    /\ call.op \in {"optimize_single_objective", "get_optimal_portfolio"}
    /\ r \in 1 .. Len(returned)
    /\ call' = Call("sensitivity_analysis", parameter)
    /\ frame' = [parameter |-> parameter,
                 selected |-> SelectedPositions(strategies, returned[r]),
                 base_value |-> returned[r].total_risk_reduction,
                 i |-> 1,
                 original |-> 0,
                 sensitivities |-> <<>>,
                 catalog_at_entry |-> strategies]
    /\ pc' = "loop"
    /\ returned' = <<>>
    /\ UNCHANGED <<strategies, budget_limit, cbc, total_budget, strategy_horizons,
                   observed, rng>>

\* lines 338-341: read the attribute (the cost when there is none of that
\* name) and set it to 1.2 times the value read
Perturb ==
    /\ pc = "loop"
    /\ frame.i <= Len(frame.selected)
    /\ LET p == frame.selected[frame.i]
           attr == EstimateAttr(frame.parameter)
           original == GetAttr(strategies[p], attr, strategies[p].cost_estimate)
       IN /\ frame' = [frame EXCEPT !.original = original]
          /\ strategies' = [strategies EXCEPT
                               ![p] = SetAttr(@, attr, Perturbed(original))]
    /\ pc' = "perturbed"
    /\ UNCHANGED <<budget_limit, cbc, total_budget, strategy_horizons, observed, rng,
                   call, returned>>

\* lines 342-347: re-optimize on the catalog as it is now, with the sum of
\* its costs as the budget, and record the relative change
Reoptimize ==
    /\ pc = "perturbed"
    /\ \E X \in OptimalDecisions(strategies, "risk_reduction", Rat(CatalogCost, 1)) :
          LET new_result == optimize_single_objective(strategies, X, Rat(CatalogCost, 1))
              delta == new_result.total_risk_reduction - frame.base_value
              id == strategies[frame.selected[frame.i]].id
              value == IF frame.base_value > 0 THEN Rat(delta, frame.base_value)
                       ELSE Rat(0, 1)
          IN frame' = [frame EXCEPT !.sensitivities =
                          [k \in (DOMAIN @) \cup {id} |-> IF k = id THEN value ELSE @[k]]]
    /\ pc' = "reoptimized"
    /\ UNCHANGED <<strategies, budget_limit, cbc, total_budget, strategy_horizons,
                   observed, rng, call, returned>>

\* line 342: the solver fails and the exception leaves sensitivity_analysis,
\* which has no handler
ReoptimizeRaises ==
    /\ pc = "perturbed"
    /\ pc' = "raised"
    /\ UNCHANGED <<strategies, budget_limit, cbc, total_budget, strategy_horizons,
                   observed, rng, frame, call, returned>>

\* line 350, and the loop moves to the next strategy
Restore ==
    /\ pc = "reoptimized"
    /\ LET p == frame.selected[frame.i]
       IN strategies' = [strategies EXCEPT
                            ![p] = SetAttr(@, EstimateAttr(frame.parameter),
                                           frame.original)]
    /\ frame' = [frame EXCEPT !.i = @ + 1]
    /\ pc' = "loop"
    /\ UNCHANGED <<budget_limit, cbc, total_budget, strategy_horizons, observed, rng,
                   call, returned>>

\* line 352
ReturnSensitivities ==
    /\ pc = "loop"
    /\ frame.i > Len(frame.selected)
    /\ returned' = <<frame.sensitivities>>
    /\ pc' = "returned"
    /\ UNCHANGED <<strategies, budget_limit, cbc, total_budget, strategy_horizons,
                   observed, rng, frame, call>>

InSensitivityAnalysis == pc \in {"loop", "perturbed", "reoptimized"}

\* another run that holds the same catalog reads it while the call is in progress
ReadCatalog ==
    /\ InSensitivityAnalysis
    /\ observed = <<>>
    /\ observed' = <<strategies>>
    /\ UNCHANGED <<strategies, budget_limit, cbc, total_budget, strategy_horizons,
                   pc, frame, rng, call, returned>>

SensitivityCosts == {0, 5, 10}
SensitivityRisks == {50, 95}
SensitivityDays == {10}
SensitivityBudgets == {5, 15}

InitSensitivity ==
    /\ strategies \in Catalogs(StrategyAttrs(SensitivityCosts, SensitivityRisks,
                                             SensitivityDays, {"process"}),
                               MaxStrategies)
    /\ budget_limit \in SensitivityBudgets
    /\ cbc \in SolverAnswers(strategies, budget_limit)
    /\ total_budget = None
    /\ strategy_horizons = None
    /\ pc = "idle"
    /\ frame = NoFrame
    /\ observed = <<>>
    /\ rng = None
    /\ call = NoCall
    /\ returned = <<>>

NextSensitivity ==
    \/ OptimizeSingleObjective
    \/ \E t \in RiskTolerances : GetOptimalPortfolio(t)
    \/ \E parameter \in Parameters : SensitivityAnalysis(1, parameter)
    \/ Perturb
    \/ Reoptimize
    \/ ReoptimizeRaises
    \/ Restore
    \/ ReturnSensitivities
    \/ ReadCatalog

SpecSensitivity == InitSensitivity /\ [][NextSensitivity]_vars

(***************************************************************************)
(* RedTeam, BlueTeam and PurpleTeam (adversarial/war_gaming.py).  The      *)
(* outcomes of an attack are exact rationals in lowest terms; int(x) is    *)
(* the integer part of a non-negative x.                                   *)
(***************************************************************************)
RECURSIVE Gcd(_, _)
Gcd(a, b) == IF b = 0 THEN a ELSE Gcd(b, a % b)

Abs(n) == IF n < 0 THEN -n ELSE n

\* the rational n / d (d > 0) in lowest terms
Frac(n, d) == LET g == Gcd(Abs(n), d) IN Rat(n \div g, d \div g)

RatAdd(a, b) == Frac(a.num * b.den + b.num * a.den, a.den * b.den)
RatSub(a, b) == Frac(a.num * b.den - b.num * a.den, a.den * b.den)
RatMul(a, b) == Frac(a.num * b.num, a.den * b.den)
\* a / n for an integer n > 0
RatOver(a, n) == Frac(a.num, a.den * n)

RECURSIVE RatSum(_, _)
RatSum(seq, n) == IF n = 0 THEN Rat(0, 1) ELSE RatAdd(RatSum(seq, n - 1), seq[n])

Attack(type, severity, probability, multiplier, absolute) ==
    [attack_type |-> type, description |-> <<type>>, severity |-> severity,
     probability |-> probability, affected_strategies |-> <<>>,
     impact_multiplier |-> multiplier, impact_absolute |-> absolute]

\* RedTeam._build_attack_library
attack_library ==
    <<Attack("cost_overrun", "high", Frac(25, 100), Frac(3, 2), Rat(0, 1)),
      Attack("timeline_delay", "medium", Frac(35, 100), Rat(2, 1), Rat(0, 1)),
      Attack("strategy_failure", "high", Frac(15, 100), Rat(0, 1), Rat(0, 1)),
      Attack("budget_cut", "high", Frac(20, 100), Rat(1, 1), Frac(-40, 100)),
      Attack("key_person_leaves", "medium", Frac(15, 100), Frac(13, 10), Rat(0, 1)),
      Attack("new_risk_emerges", "medium", Frac(20, 100), Rat(1, 1), Frac(15, 100)),
      Attack("vendor_delay", "medium", Frac(30, 100), Rat(1, 1), Rat(60, 1)),
      Attack("regulatory_change", "low", Frac(10, 100), Rat(1, 1), Rat(50000, 1))>>

severity_order(severity) ==
    CASE severity = "low" -> 0
      [] severity = "medium" -> 1
      [] severity = "high" -> 2
      [] OTHER -> 0

KeyRiskReduction(s) == Rat(s.risk_reduction_pct, 1)

\* a strategy-failure attack left without a target
TargetNothing(portfolio, attack) == attack

\* lines 183-190: the strategy-failure attack targets the selected strategy
\* with the greatest risk_reduction_pct (the first of them)
TargetTopStrategy(portfolio, attack) ==
    IF attack.attack_type = "strategy_failure" /\ portfolio.selected_strategies # <<>>
    THEN LET sel == portfolio.selected_strategies
             top_strategy == sel[FirstBest(sel, KeyRiskReduction, Greater, Len(sel))]
         IN [attack EXCEPT !.affected_strategies = <<top_strategy.id>>,
                           !.description = <<"strategy_failure", top_strategy.id>>]
    ELSE attack

generate_attacks(portfolio, severity_threshold) ==
    LET kept == SelectSeq(attack_library, LAMBDA a :
                    severity_order(a.severity) >= severity_order(severity_threshold))
    IN [i \in 1 .. Len(kept) |-> TargetTopStrategy(portfolio, kept[i])]

\* int(x) for x >= 0
IntPart(x) == x.num \div x.den

Ids(seq) == {seq[i] : i \in 1 .. Len(seq)}

OriginalOutcome(portfolio) ==
    [cost |-> Rat(portfolio.total_cost, 1),
     risk_reduction |-> Rat(portfolio.total_risk_reduction, 1),
     timeline |-> portfolio.total_timeline_days,
     strategies |-> Len(portfolio.selected_strategies)]

\* lines 213-260: the degraded outcome, the damage and the recovery options
Degrade(portfolio, attack, original) ==
    CASE attack.attack_type = "cost_overrun" ->
            LET cost == RatMul(original.cost, attack.impact_multiplier)
            IN [degraded |-> [original EXCEPT !.cost = cost],
                damage |-> {<<"cost_increase", RatSub(cost, original.cost)>>},
                recovery |-> <<"Request emergency budget allocation",
                               "Reduce scope to high-priority items">>]
      [] attack.attack_type = "timeline_delay" ->
            LET timeline == IntPart(RatMul(Rat(original.timeline, 1),
                                           attack.impact_multiplier))
            IN [degraded |-> [original EXCEPT !.timeline = timeline],
                damage |-> {<<"timeline_increase", timeline - original.timeline>>},
                recovery |-> <<"Add resources to accelerate",
                               "Parallel execution where possible">>]
      [] attack.attack_type = "strategy_failure" ->
            LET failed_strategies ==
                    SelectSeq(portfolio.selected_strategies,
                              LAMBDA s : s.id \in Ids(attack.affected_strategies))
                failed_reduction == SeqSum(failed_strategies, "risk_reduction_pct")
                left == RatSub(original.risk_reduction, Rat(failed_reduction, 1))
            IN [degraded |-> [original EXCEPT
                                 !.risk_reduction =
                                     IF left.num >= 0 THEN left ELSE Rat(0, 1),
                                 !.strategies = @ - Len(failed_strategies)],
                damage |-> {<<"risk_reduction_lost", failed_reduction>>},
                recovery |-> <<"Activate backup strategy from same category",
                               "Reallocate budget to remaining strategies">>]
      [] attack.attack_type = "budget_cut" ->
            LET share == Rat(Abs(attack.impact_absolute.num), attack.impact_absolute.den)
                cut_amount == RatMul(original.cost, share)
            IN [degraded |-> [original EXCEPT
                                 !.cost = RatSub(original.cost, cut_amount),
                                 !.risk_reduction =
                                     RatMul(original.risk_reduction,
                                            RatSub(Rat(1, 1), share))],
                damage |-> {<<"budget_cut", cut_amount>>},
                recovery |-> <<"Prioritize must-have strategies",
                               "Defer nice-to-have to next quarter">>]
      [] attack.attack_type = "key_person_leaves" ->
            LET cost == RatMul(original.cost, attack.impact_multiplier)
                timeline == IntPart(Frac(original.timeline * 12, 10))
            IN [degraded |-> [original EXCEPT !.cost = cost, !.timeline = timeline],
                damage |-> {<<"cost_increase", RatSub(cost, original.cost)>>,
                            <<"timeline_increase", timeline - original.timeline>>},
                recovery |-> <<"Cross-train backup lead immediately",
                               "Document critical knowledge">>]
      [] attack.attack_type = "new_risk_emerges" ->
            LET additional == RatMul(attack.impact_absolute, Rat(100, 1))
            IN [degraded |-> [original EXCEPT
                                 !.risk_reduction =
                                     RatSub(original.risk_reduction, additional)],
                damage |-> {<<"additional_risk", additional>>},
                recovery |-> <<"Add emergency mitigation strategy",
                               "Reallocate resources from lower-priority items">>]
      [] OTHER -> [degraded |-> original, damage |-> {}, recovery |-> <<>>]

\* lines 262-268
RiskDegradation(original, degraded) ==
    IF original.risk_reduction.num > 0
    THEN LET lost == RatSub(original.risk_reduction, degraded.risk_reduction)
         IN RatMul(Frac(lost.num * original.risk_reduction.den,
                        lost.den * original.risk_reduction.num), Rat(100, 1))
    ELSE Rat(0, 1)

\* viable only with more than half of the intended risk reduction
StillViableStrictly(original, degraded) ==
    RatLess(RatMul(original.risk_reduction, Frac(1, 2)), degraded.risk_reduction)

\* line 271: at least half of the intended risk reduction is still achieved
StillViable(original, degraded) ==
    RatLeq(RatMul(original.risk_reduction, Frac(1, 2)), degraded.risk_reduction)

\* an apply_attack with a rule for the vendor delay: the days of the attack
\* are added to the timeline
apply_attack_vendor_rule(portfolio, attack) ==
    LET original == OriginalOutcome(portfolio)
        days == IntPart(attack.impact_absolute)
        d == IF attack.attack_type = "vendor_delay"
             THEN [degraded |-> [original EXCEPT !.timeline = @ + days],
                   damage |-> {<<"timeline_increase", days>>},
                   recovery |-> <<>>]
             ELSE Degrade(portfolio, attack, original)
    IN [attack |-> attack,
        original_outcome |-> original,
        degraded_outcome |-> d.degraded,
        damage |-> d.damage,
        outcome_degradation_pct |-> RiskDegradation(original, d.degraded),
        still_viable |-> StillViable(original, d.degraded),
        recovery_options |-> d.recovery]

apply_attack(portfolio, attack) ==
    LET original == OriginalOutcome(portfolio)
        d == Degrade(portfolio, attack, original)
    IN [attack |-> attack,
        original_outcome |-> original,
        degraded_outcome |-> d.degraded,
        damage |-> d.damage,
        outcome_degradation_pct |-> RiskDegradation(original, d.degraded),
        still_viable |-> StillViable(original, d.degraded),
        recovery_options |-> d.recovery]

\* a backup plan drawn from the whole catalog
AvailableStrategiesAll(cat, attack_results) == cat

\* BlueTeam.generate_backup_plan, lines 304-313: the catalog without the
\* strategies that a strategy-failure attack targeted
AvailableStrategies(cat, attack_results) ==
    LET failed_strategy_ids ==
            UNION {Ids(attack_results[i].attack.affected_strategies) :
                      i \in {k \in 1 .. Len(attack_results) :
                                attack_results[k].attack.attack_type = "strategy_failure"}}
    IN SelectSeq(cat, LAMBDA s : s.id \notin failed_strategy_ids)

\* lines 316-322, given the answers of the solver for the new optimizer
generate_backup_plan(available, answers, reduced_budget) ==
    get_optimal_portfolio(available, answers, reduced_budget, "conservative")

\* available_budget * 0.6, for a budget that is a multiple of 5
ReducedBudget(available_budget) == (available_budget * 6) \div 10

\* lines 357-362: (100 - avg_degradation) * viability_rate
WeightedScore(attack_results) ==
    LET n == Len(attack_results)
        degradations == [i \in 1 .. n |-> attack_results[i].outcome_degradation_pct]
        avg_degradation == IF n > 0 THEN RatOver(RatSum(degradations, n), n) ELSE Rat(0, 1)
        viable == Cardinality({i \in 1 .. n : attack_results[i].still_viable})
        viability_rate == IF n > 0 THEN Frac(viable, n) ELSE Rat(1, 1)
    IN RatMul(RatSub(Rat(100, 1), avg_degradation), viability_rate)

\* a score that is not clamped
RobustnessScoreUnclamped(attack_results) == WeightedScore(attack_results)

\* line 362: max(0, min(100, ...))
RobustnessScore(attack_results) ==
    LET raw == WeightedScore(attack_results)
        capped == IF RatLeq(Rat(100, 1), raw) THEN Rat(100, 1) ELSE raw
    IN IF RatLeq(capped, Rat(0, 1)) THEN Rat(0, 1) ELSE capped

AtLeast(score, n) == score.num >= n * score.den

\* a rating whose first bound is exclusive
ResilienceRatingStrict(robustness_score) ==
    IF robustness_score.num > 85 * robustness_score.den THEN "A"
    ELSE IF AtLeast(robustness_score, 70) THEN "B"
    ELSE IF AtLeast(robustness_score, 55) THEN "C"
    ELSE IF AtLeast(robustness_score, 40) THEN "D"
    ELSE "F"

\* lines 365-374
ResilienceRating(robustness_score) ==
    IF AtLeast(robustness_score, 85) THEN "A"
    ELSE IF AtLeast(robustness_score, 70) THEN "B"
    ELSE IF AtLeast(robustness_score, 55) THEN "C"
    ELSE IF AtLeast(robustness_score, 40) THEN "D"
    ELSE "F"

Recommendation(attack_type) ==
    CASE attack_type = "cost_overrun" -> {"Include 20% contingency buffer in budget"}
      [] attack_type = "strategy_failure" ->
            {"Identify backup strategies for critical items"}
      [] attack_type = "budget_cut" -> {"Pre-secure multi-quarter funding commitment"}
      [] attack_type = "key_person_leaves" ->
            {"Document knowledge and cross-train team members"}
      [] OTHER -> {}

\* damage that counts only beyond a loss of half
HighDamageAboveHalf(result) == RatLess(Rat(50, 1), result.outcome_degradation_pct)

\* line 409
HighDamage(result) == RatLess(Rat(20, 1), result.outcome_degradation_pct)

\* lines 411-419: what the loop has appended to recs after the first k results.
\* A list whose order is of no account is kept as the bag of its elements.
RECURSIVE HighDamageRecs(_, _)
HighDamageRecs(attack_results, k) ==
    IF k = 0
    THEN EmptyBag
    ELSE HighDamageRecs(attack_results, k - 1)
         (+) (IF HighDamage(attack_results[k])
              THEN SetToBag(Recommendation(attack_results[k].attack.attack_type))
              ELSE EmptyBag)

\* _generate_recommendations, lines 406-425; list(set(recs)) has each element
\* of recs once
generate_recommendations(attack_results, robustness_score) ==
    LET recs == HighDamageRecs(attack_results, Len(attack_results))
                (+) (IF ~AtLeast(robustness_score, 60)
                     THEN SetToBag({"Consider diversifying portfolio across more strategies",
                                    "Prioritize strategies with higher confidence levels"})
                     ELSE EmptyBag)
    IN SetToBag(BagToSet(recs))

KeyDegradation(r) == r.outcome_degradation_pct

\* an assessment whose score is weighted by the sampled lower bound of the
\* backup plan's risk reduction
RobustnessAssessmentSampled(portfolio, attack_results, backup) ==
    LET robustness_score ==
            RatOver(RatMul(RobustnessScore(attack_results),
                           RatAdd(Rat(100, 1), backup.risk_reduction_p5)), 200)
    IN [portfolio |-> portfolio,
        robustness_score |-> robustness_score,
        resilience_rating |-> ResilienceRating(robustness_score),
        attack_results |-> attack_results,
        worst_case_outcome |-> <<>>,
        worst_case_description |-> <<>>,
        backup_plan |-> backup,
        recommendations |-> generate_recommendations(attack_results, robustness_score)]

RobustnessAssessment(portfolio, attack_results, backup) ==
    LET robustness_score == RobustnessScore(attack_results)
        worst == IF attack_results # <<>>
                 THEN <<attack_results[FirstBest(attack_results, KeyDegradation, Greater,
                                                 Len(attack_results))]>>
                 ELSE <<>>
    IN [portfolio |-> portfolio,
        robustness_score |-> robustness_score,
        resilience_rating |-> ResilienceRating(robustness_score),
        attack_results |-> attack_results,
        worst_case_outcome |-> IF worst # <<>> THEN <<worst[1].degraded_outcome>> ELSE <<>>,
        worst_case_description |->
            IF worst # <<>> THEN worst[1].attack.description ELSE <<>>,
        backup_plan |-> backup,
        recommendations |-> generate_recommendations(attack_results, robustness_score)]

\* lines 349-354
AttackResults(portfolio) ==
    LET attacks == generate_attacks(portfolio, "low")
    IN [i \in 1 .. Len(attacks) |-> apply_attack(portfolio, attacks[i])]

(***************************************************************************)
(* War gaming as a state machine: a CoreOptimizer and a PurpleTeam over    *)
(* the same catalog; a portfolio returned by the optimizer is assessed     *)
(* with the budget it was optimized for.                                   *)
(***************************************************************************)
WarCosts == {0, 5, 10}
WarRisks == {1, 25, 60}
WarDays == {10}
WarBudgets == {5, 30}

InitWarGaming ==
    /\ strategies \in Catalogs(StrategyAttrs(WarCosts, WarRisks, WarDays, {"process"}),
                               MaxStrategies)
    /\ budget_limit \in WarBudgets
    /\ cbc \in SolverAnswers(strategies, budget_limit)
    /\ total_budget = None
    /\ strategy_horizons = None
    /\ pc = "idle"
    /\ frame = NoFrame
    /\ observed = <<>>
    /\ rng = None
    /\ call = NoCall
    /\ returned = <<>>

\* assess_robustness(portfolio, available_budget); the CBC answers to the
\* optimizer of the backup plan are part of what the call does
AssessRobustness(r, available_budget) ==
    /\ pc = "idle"
    /\ call.op \in {"optimize_single_objective", "get_optimal_portfolio"}
    /\ r \in 1 .. Len(returned)
    /\ call' = Call("assess_robustness", available_budget)
    /\ \E attack_results \in {AttackResults(returned[r])} :
        \E available \in {AvailableStrategies(strategies, attack_results)} :
          \E answers \in SolverAnswers(available, ReducedBudget(available_budget)) :
            returned' = <<RobustnessAssessment(returned[r], attack_results,
                              generate_backup_plan(available, answers,
                                                   ReducedBudget(available_budget)))>>
    /\ UNCHANGED engines

NextWarGaming ==
    \/ OptimizeSingleObjective
    \/ \E t \in RiskTolerances : GetOptimalPortfolio(t)
    \/ AssessRobustness(1, budget_limit)
    \/ Discard

SpecWarGaming == InitWarGaming /\ [][NextWarGaming]_vars

(***************************************************************************)
(* assess_robustness statement by statement (war_gaming.py:340-398): pc is *)
(* the stage the run has performed last and frame holds its locals.  The   *)
(* caller is single-threaded: a run that has begun takes its next step.    *)
(***************************************************************************)
Stages == <<"generate_attacks", "apply_attacks", "score_and_grade",
            "synthesize_backup", "done">>

\* results kept in the reverse of the order of application
PrependResult(attack_results, result) == <<result>> \o attack_results

\* line 354: attack_results.append(result)
AppendResult(attack_results, result) == Append(attack_results, result)

\* line 349, with the arguments bound (lines 340-344)
GenerateAttacks(r, available_budget) ==
    /\ pc = "idle"
    /\ call.op \in {"optimize_single_objective", "get_optimal_portfolio"}
    /\ r \in 1 .. Len(returned)
    /\ call' = Call("assess_robustness", available_budget)
    /\ frame' = [portfolio |-> returned[r],
                 available_budget |-> available_budget,
                 attacks |-> generate_attacks(returned[r], "low"),
                 attack_results |-> <<>>,
                 robustness_score |-> <<>>,
                 rating |-> <<>>,
                 backup |-> <<>>]
    /\ pc' = "generate_attacks"
    /\ returned' = <<>>
    /\ UNCHANGED <<strategies, budget_limit, cbc, total_budget, strategy_horizons,
                   observed, rng>>

\* lines 352-354: the loop over the attacks, from the results so far
RECURSIVE ApplyEach(_, _, _)
ApplyEach(portfolio, attacks, attack_results) ==
    IF Len(attack_results) = Len(attacks)
    THEN attack_results
    ELSE LET result == apply_attack(portfolio, attacks[Len(attack_results) + 1])
         IN ApplyEach(portfolio, attacks, AppendResult(attack_results, result))

ApplyAttacks ==
    /\ pc = "generate_attacks"
    /\ frame' = [frame EXCEPT !.attack_results =
                    ApplyEach(frame.portfolio, frame.attacks, <<>>)]
    /\ pc' = "apply_attacks"
    /\ UNCHANGED <<strategies, budget_limit, cbc, total_budget, strategy_horizons,
                   observed, rng, call, returned>>

\* lines 357-374
ScoreAndGrade ==
    /\ pc = "apply_attacks"
    /\ \E robustness_score \in {RobustnessScore(frame.attack_results)} :
          frame' = [frame EXCEPT !.robustness_score = <<robustness_score>>,
                                 !.rating = <<ResilienceRating(robustness_score)>>]
    /\ pc' = "score_and_grade"
    /\ UNCHANGED <<strategies, budget_limit, cbc, total_budget, strategy_horizons,
                   observed, rng, call, returned>>

\* lines 380-384, with the CBC answers to the optimizer of the backup plan
SynthesizeBackup ==
    /\ pc = "score_and_grade"
    /\ \E available \in {AvailableStrategies(strategies, frame.attack_results)} :
        \E answers \in SolverAnswers(available, ReducedBudget(frame.available_budget)) :
          frame' = [frame EXCEPT !.backup =
                       <<generate_backup_plan(available, answers,
                                              ReducedBudget(frame.available_budget))>>]
    /\ pc' = "synthesize_backup"
    /\ UNCHANGED <<strategies, budget_limit, cbc, total_budget, strategy_horizons,
                   observed, rng, call, returned>>

\* lines 387-398: the recommendations and the assessment returned
ReturnAssessment ==
    /\ pc = "synthesize_backup"
    /\ returned' = <<RobustnessAssessment(frame.portfolio, frame.attack_results,
                                          frame.backup[1])>>
    /\ pc' = "done"
    /\ UNCHANGED <<strategies, budget_limit, cbc, total_budget, strategy_horizons,
                   frame, observed, rng, call>>

\* the caller lets go of the assessment
DropAssessment ==
    /\ pc = "done"
    /\ pc' = "idle"
    /\ frame' = NoFrame
    /\ call' = NoCall
    /\ returned' = <<>>
    /\ UNCHANGED <<strategies, budget_limit, cbc, total_budget, strategy_horizons,
                   observed, rng>>

\* a run that has begun goes on: its stage changes
Continue ==
    /\ pc \in {Stages[i] : i \in 1 .. Len(Stages) - 1}
    /\ pc' \in {Stages[i] : i \in 1 .. Len(Stages)}

NextStages ==
    \/ OptimizeSingleObjective
    \/ \E t \in RiskTolerances : GetOptimalPortfolio(t)
    \/ Discard
    \/ GenerateAttacks(1, budget_limit)
    \/ ApplyAttacks
    \/ ScoreAndGrade
    \/ SynthesizeBackup
    \/ ReturnAssessment
    \/ DropAssessment

SpecStages == InitWarGaming /\ [][NextStages]_vars /\ WF_pc(Continue)

(***************************************************************************)
(* Monte Carlo sampling.  The samples come from np.random, the generator   *)
(* of the numpy module, which every call in the process shares and nothing *)
(* seeds.  A generator is deterministic: its state fixes every draw to     *)
(* come, so the state is kept as the cycle of the draws it has yet to give *)
(* (a cycle of StreamLen draws).  A draw is coarse: it is the low or the   *)
(* high value of its distribution.  The specifications above work on point *)
(* distributions (cost_min = cost_max, confidence 1), on which no result   *)
(* depends on a draw, and do not follow the generator.                     *)
(***************************************************************************)
StreamLen == 3
Noise == {-1, 1}
Generators == [1 .. StreamLen -> Noise]

\* the generator after one draw
Advance(g) == Tail(g) \o <<g[1]>>

\* np.random.triangular(cost_min, cost_estimate, cost_max, 1)[0]
Triangular(left, mode, right, z) == IF z < 0 THEN left ELSE right

\* np.random.normal(loc, scale)
Normal(loc, scale, z) == loc + z * scale

\* risk_std = strategy.risk_reduction_pct * (1 - strategy.confidence)
risk_std(strategy) == (strategy.risk_reduction_pct * (100 - strategy.confidence)) \div 100

\* get_cost_distribution(1)[0]: the cost and the generator after it
get_cost_distribution(strategy, g) ==
    IF strategy.cost_min = strategy.cost_max
    THEN [cost |-> strategy.cost_estimate, rng |-> g]
    ELSE [cost |-> Triangular(strategy.cost_min, strategy.cost_estimate,
                              strategy.cost_max, g[1]),
          rng |-> Advance(g)]

\* the body of the inner loop: one strategy added to the totals of a simulation
SampleStrategy(strategy, totals) ==
    LET c == get_cost_distribution(strategy, totals.rng)
        risk == Normal(strategy.risk_reduction_pct, risk_std(strategy), c.rng[1])
    IN [total_cost |-> totals.total_cost + c.cost,
        total_risk |-> totals.total_risk + risk,
        rng |-> Advance(c.rng)]

\* the inner loop over selected_strategies[1 .. k]
RECURSIVE SimulateOnce(_, _, _)
SimulateOnce(sel, k, g) ==
    IF k = 0 THEN [total_cost |-> 0, total_risk |-> 0, rng |-> g]
    ELSE SampleStrategy(sel[k], SimulateOnce(sel, k - 1, g))

\* the outer loop: simulations 1 .. n
RECURSIVE Simulations(_, _, _)
Simulations(sel, n, g) ==
    IF n = 0 THEN [cost_samples |-> <<>>, risk_samples |-> <<>>, rng |-> g]
    ELSE LET before == Simulations(sel, n - 1, g)
             one == SimulateOnce(sel, Len(sel), before.rng)
         IN [cost_samples |-> Append(before.cost_samples, one.total_cost),
             risk_samples |-> Append(before.risk_samples, Min2(one.total_risk, RiskCap)),
             rng |-> one.rng]

\* sorted(samples): insertion into an ascending list
RECURSIVE Insert(_, _)
Insert(sorted, x) ==
    IF sorted = <<>> THEN <<x>>
    ELSE IF x <= Head(sorted) THEN <<x>> \o sorted
    ELSE <<Head(sorted)>> \o Insert(Tail(sorted), x)

RECURSIVE Sorted(_)
Sorted(samples) ==
    IF samples = <<>> THEN <<>> ELSE Insert(Sorted(Tail(samples)), Head(samples))

\* np.percentile(samples, q): linear interpolation between the two nearest ranks
Percentile(samples, q) ==
    LET x == Sorted(samples)
        n == Len(x)
        lo == ((n - 1) * q) \div 100
        rest == ((n - 1) * q) % 100
    IN IF rest = 0 THEN Rat(x[lo + 1], 1)
       ELSE Frac(100 * x[lo + 1] + rest * (x[lo + 2] - x[lo + 1]), 100)

\* lines 319-323
WithPercentiles(result, cost_samples, risk_samples) ==
    [result EXCEPT !.cost_p5 = Percentile(cost_samples, 5),
                   !.cost_p95 = Percentile(cost_samples, 95),
                   !.risk_reduction_p5 = Percentile(risk_samples, 5),
                   !.risk_reduction_p95 = Percentile(risk_samples, 95)]

\* monte_carlo_analysis(result, n_simulations) run from the generator g, with
\* no other draw in between: the result and the generator it leaves
monte_carlo_draws(result, n_simulations, g) ==
    LET s == Simulations(result.selected_strategies, n_simulations, g)
    IN [result |-> WithPercentiles(result, s.cost_samples, s.risk_samples),
        rng |-> s.rng]

\* n_simulations, scaled down from the default of 1000
NSimulations == 2

\* get_optimal_portfolio with the generator g: the portfolio and the generator
\* that monte_carlo_analysis leaves
get_optimal_portfolio_draws(cat, answers, limit, risk_tolerance, g) ==
    Let(optimize_pareto(cat, answers, limit),
        LAMBDA frontier :
            IF frontier = <<>> THEN [result |-> EmptyResult, rng |-> g]
            ELSE monte_carlo_draws(SelectByTolerance(frontier, risk_tolerance),
                                   NSimulations, g))

(***************************************************************************)
(* War gaming over strategies whose cost and effect are uncertain: the     *)
(* Monte Carlo step of get_optimal_portfolio, also the one behind the      *)
(* backup plan, draws from the generator.  The caller keeps the portfolio  *)
(* and may have it assessed a second time.                                 *)
(***************************************************************************)
DrawnRisks == {20, 40}
DrawnCostRanges == {<<1, 1, 1>>, <<1, 2, 3>>}
DrawnBudgets == {5, 20}

DrawnCatalogs(maxlen) ==
    UNION {{[i \in 1 .. n |->
                StrategyInit(i, "process", f[i][1], f[i][2][1], f[i][2][3], f[i][2][2],
                             10, 10, 10)[1]] :
               f \in [1 .. n -> DrawnRisks \X DrawnCostRanges]} : n \in 0 .. maxlen}

InitDrawn ==
    /\ strategies \in DrawnCatalogs(MaxStrategies)
    /\ budget_limit \in DrawnBudgets
    /\ cbc \in SolverAnswers(strategies, budget_limit)
    /\ rng \in Generators
    /\ total_budget = None
    /\ strategy_horizons = None
    /\ pc = "idle"
    /\ frame = NoFrame
    /\ observed = <<>>
    /\ call = NoCall
    /\ returned = <<>>

GetOptimalPortfolioDrawn(risk_tolerance) ==
    /\ pc = "idle"
    /\ call.op = "none"
    /\ call' = Call("get_optimal_portfolio", risk_tolerance)
    /\ \E out \in {get_optimal_portfolio_draws(strategies, cbc, budget_limit,
                                               risk_tolerance, rng)} :
          /\ returned' = <<out.result>>
          /\ rng' = out.rng
    /\ UNCHANGED <<strategies, budget_limit, cbc, total_budget, strategy_horizons,
                   pc, frame, observed>>

\* assess_robustness(portfolio, available_budget), the Monte Carlo step of the
\* backup plan included; assessments holds the assessments made so far
AssessDrawn(portfolio, available_budget, assessments) ==
    /\ call' = Call("assess_robustness",
                    [portfolio |-> portfolio, available_budget |-> available_budget])
    /\ \E attack_results \in {AttackResults(portfolio)} :
        \E available \in {AvailableStrategies(strategies, attack_results)} :
          \E answers \in SolverAnswers(available, ReducedBudget(available_budget)) :
            \E backup \in {get_optimal_portfolio_draws(available, answers,
                               ReducedBudget(available_budget), "conservative", rng)} :
              /\ returned' = Append(assessments,
                                    RobustnessAssessment(portfolio, attack_results,
                                                         backup.result))
              /\ rng' = backup.rng
    /\ UNCHANGED <<strategies, budget_limit, cbc, total_budget, strategy_horizons,
                   pc, frame, observed>>

AssessRobustnessDrawn ==
    /\ pc = "idle"
    /\ call.op \in {"optimize_single_objective", "get_optimal_portfolio"}
    /\ AssessDrawn(returned[1], budget_limit, <<>>)

\* a second run on the same portfolio, catalog and available_budget
AssessRobustnessAgain ==
    /\ pc = "idle"
    /\ call.op = "assess_robustness"
    /\ Len(returned) = 1
    /\ AssessDrawn(call.arg.portfolio, call.arg.available_budget, returned)

NextDrawn ==
    \/ OptimizeSingleObjective
    \/ \E t \in RiskTolerances : GetOptimalPortfolioDrawn(t)
    \/ AssessRobustnessDrawn
    \/ AssessRobustnessAgain
    \/ Discard

SpecDrawn == InitDrawn /\ [][NextDrawn]_vars

(***************************************************************************)
(* Two monte_carlo_analysis calls in two threads of one process.  Each     *)
(* call to np.random is one step; between two of them the other thread may *)
(* run.  pc, frame and returned are kept per thread, and observed[t] is    *)
(* the generator as thread t found it on entry.                            *)
(***************************************************************************)
Threads == {1, 2}

InitMonteCarlo ==
    /\ strategies \in DrawnCatalogs(MaxStrategies) \ {<<>>}
    /\ budget_limit = CatalogCost
    /\ cbc \in SolverAnswers(strategies, budget_limit)
    /\ rng \in Generators
    /\ total_budget = None
    /\ strategy_horizons = None
    /\ pc = [t \in Threads |-> "idle"]
    /\ frame = [t \in Threads |-> NoFrame]
    /\ observed = [t \in Threads |-> <<>>]
    /\ call = NoCall
    /\ returned = [t \in Threads |-> <<>>]

\* result = optimizer.optimize_single_objective(...);
\* optimizer.monte_carlo_analysis(result): lines 293-294
MonteCarloAnalysis(t) ==
    /\ pc[t] = "idle"
    /\ frame' = [frame EXCEPT ![t] =
                    [result |-> optimize_single_objective(strategies, cbc[NSolutions],
                                                          Rat(budget_limit, 1)),
                     n_simulations |-> NSimulations,
                     i |-> 1, k |-> 1, cost |-> <<>>,
                     total_cost |-> 0, total_risk |-> 0,
                     cost_samples |-> <<>>, risk_samples |-> <<>>]]
    /\ observed' = [observed EXCEPT ![t] = <<rng>>]
    /\ pc' = [pc EXCEPT ![t] = "sampling"]
    /\ UNCHANGED <<strategies, budget_limit, cbc, total_budget, strategy_horizons,
                   rng, call, returned>>

CurrentStrategy(t) == frame[t].result.selected_strategies[frame[t].k]

\* line 304, for a strategy whose cost is a range: np.random.triangular
DrawCost(t) ==
    /\ pc[t] = "sampling"
    /\ frame[t].cost = <<>>
    /\ CurrentStrategy(t).cost_min # CurrentStrategy(t).cost_max
    /\ \E c \in {get_cost_distribution(CurrentStrategy(t), rng)} :
          /\ frame' = [frame EXCEPT ![t].cost = <<c.cost>>]
          /\ rng' = c.rng
    /\ UNCHANGED <<strategies, budget_limit, cbc, total_budget, strategy_horizons,
                   pc, observed, call, returned>>

\* the frame after the strategy's cost and risk went into the totals: the
\* next strategy, or the next simulation (lines 313-317)
AfterStrategy(f, cost, risk) ==
    IF f.k < Len(f.result.selected_strategies)
    THEN [f EXCEPT !.k = @ + 1, !.cost = <<>>,
                   !.total_cost = @ + cost, !.total_risk = @ + risk]
    ELSE [f EXCEPT !.i = @ + 1, !.k = 1, !.cost = <<>>,
                   !.total_cost = 0, !.total_risk = 0,
                   !.cost_samples = Append(@, f.total_cost + cost),
                   !.risk_samples = Append(@, Min2(f.total_risk + risk, RiskCap))]

\* lines 304-314: np.random.normal, after the cost of a point distribution
\* or the cost drawn before; after the last simulation, lines 319-323
DrawRisk(t) ==
    /\ pc[t] = "sampling"
    /\ frame[t].cost # <<>> \/ CurrentStrategy(t).cost_min = CurrentStrategy(t).cost_max
    /\ \E cost \in {IF frame[t].cost # <<>> THEN frame[t].cost[1]
                    ELSE get_cost_distribution(CurrentStrategy(t), rng).cost} :
        \E risk \in {Normal(CurrentStrategy(t).risk_reduction_pct,
                            risk_std(CurrentStrategy(t)), rng[1])} :
          \E f \in {AfterStrategy(frame[t], cost, risk)} :
            /\ frame' = [frame EXCEPT ![t] = f]
            /\ IF f.i > f.n_simulations
               THEN /\ pc' = [pc EXCEPT ![t] = "done"]
                    /\ returned' = [returned EXCEPT ![t] =
                                       <<WithPercentiles(f.result, f.cost_samples,
                                                         f.risk_samples)>>]
               ELSE UNCHANGED <<pc, returned>>
    /\ rng' = Advance(rng)
    /\ UNCHANGED <<strategies, budget_limit, cbc, total_budget, strategy_horizons,
                   observed, call>>

NextMonteCarlo ==
    \E t \in Threads : MonteCarloAnalysis(t) \/ DrawCost(t) \/ DrawRisk(t)

SpecMonteCarlo == InitMonteCarlo /\ [][NextMonteCarlo]_vars

(***************************************************************************)
(* Properties of the optimizer.                                            *)
(***************************************************************************)
OptimizerOps == {"optimize_single_objective", "optimize_pareto", "get_optimal_portfolio"}

\* C1: with non-negative costs and a non-negative budget, the portfolio
\* returned by optimize_single_objective, every portfolio returned by
\* optimize_pareto and the portfolio returned by get_optimal_portfolio (for
\* each of the three tolerances) has total_cost <= budget_limit.
C1_BudgetRespected ==
    call.op \in OptimizerOps =>
        \A i \in 1 .. Len(returned) : returned[i].total_cost <= budget_limit

\* the budget binds: the whole catalog does not fit, and a returned portfolio
\* spends the budget exactly
C1_Witness ==
    /\ call.op = "optimize_pareto"
    /\ budget_limit > 0
    /\ CatalogCost > budget_limit
    /\ \E i \in 1 .. Len(returned) :
          /\ returned[i].total_cost = budget_limit
          /\ returned[i].selected_strategies # <<>>

\* C2: no portfolio returned by optimize_pareto is dominated by another
\* portfolio of the same returned list, where a dominates b when a has
\* risk reduction >= b's, cost <= b's, timeline <= b's and one of the three
\* strictly better.
C2_ParetoNonDominated ==
    call.op = "optimize_pareto" =>
        \A i, j \in 1 .. Len(returned) :
            LET a == returned[i]
                b == returned[j]
            IN ~ /\ a.total_risk_reduction >= b.total_risk_reduction
                 /\ a.total_cost <= b.total_cost
                 /\ a.total_timeline_days <= b.total_timeline_days
                 /\ \/ a.total_risk_reduction > b.total_risk_reduction
                    \/ a.total_cost < b.total_cost
                    \/ a.total_timeline_days < b.total_timeline_days

\* the filter removed a solution of the sweep and kept two different portfolios
C2_Witness ==
    /\ call.op = "optimize_pareto"
    /\ Len(returned) < NSolutions
    /\ \E i, j \in 1 .. Len(returned) :
          returned[i].selected_strategies # returned[j].selected_strategies

\* C3: for the same catalog, solver and budget, the portfolio returned by
\* get_optimal_portfolio('conservative') never costs more than the one
\* returned by get_optimal_portfolio('aggressive').
C3_ConservativeNotDearer ==
    (call.op = "get_optimal_portfolio" /\ call.arg = "conservative") =>
        returned[1].total_cost
            <= get_optimal_portfolio(strategies, cbc, budget_limit,
                                     "aggressive").total_cost

\* the two tolerances return portfolios of different cost
C3_Witness ==
    /\ call.op = "get_optimal_portfolio"
    /\ call.arg = "conservative"
    /\ returned[1].total_cost
          < get_optimal_portfolio(strategies, cbc, budget_limit,
                                  "aggressive").total_cost

(***************************************************************************)
(* Properties of the scheduler.                                            *)
(***************************************************************************)
\* the allocation that the optimize_all_horizons call in `call` works with
CallAllocation ==
    IF call.arg = <<>> THEN RecommendedAllocation(total_budget) ELSE call.arg[1]

\* C4: in every MultiHorizonPlan returned by optimize_all_horizons, with the
\* default or with a caller-supplied budget allocation, no strategy id
\* appears in more than one of the immediate, tactical and strategic plans.
C4_NoIdInTwoPlans ==
    call.op = "optimize_all_horizons" =>
        LET plan == returned[1]
        IN /\ SelectedIds(plan.immediate_plan) \cap SelectedIds(plan.tactical_plan) = {}
           /\ SelectedIds(plan.immediate_plan) \cap SelectedIds(plan.strategic_plan) = {}
           /\ SelectedIds(plan.tactical_plan) \cap SelectedIds(plan.strategic_plan) = {}

\* the exclusion mattered: a strategy selected for the immediate horizon is one
\* that the tactical horizon, with its budget, selects when nothing is excluded
C4_Witness ==
    /\ call.op = "optimize_all_horizons"
    /\ \E id \in SelectedIds(returned[1].immediate_plan) :
          id \in SelectedIds(optimize_horizon(strategies, strategy_horizons, "tactical",
                                              CallAllocation["tactical"], {}))
    /\ returned[1].tactical_plan.strategies # <<>>

UniqueIds(cat) == \A i, j \in Positions(cat) : cat[i].id = cat[j].id => i = j

\* C5: for a catalog whose strategy ids are unique, no id occurs twice among
\* the selected strategies of a Portfolio returned by the optimizer, nor
\* among those of a HorizonPlan returned by optimize_horizon (called directly
\* or by optimize_all_horizons).
C5_NoIdTwiceInOnePlan ==
    UniqueIds(strategies) =>
        /\ call.op \in OptimizerOps =>
              \A i \in 1 .. Len(returned) : UniqueIds(returned[i].selected_strategies)
        /\ call.op = "optimize_horizon" => UniqueIds(returned[1].strategies)
        /\ call.op = "optimize_all_horizons" =>
              /\ UniqueIds(returned[1].immediate_plan.strategies)
              /\ UniqueIds(returned[1].tactical_plan.strategies)
              /\ UniqueIds(returned[1].strategic_plan.strategies)

\* a plan of one horizon with two strategies, from a catalog of unique ids
C5_Witness ==
    /\ UniqueIds(strategies)
    /\ call.op = "optimize_horizon"
    /\ Len(returned[1].strategies) >= 2

(***************************************************************************)
(* Properties of sensitivity_analysis.                                     *)
(***************************************************************************)
\* C6: on every exit path of sensitivity_analysis, the normal return and the
\* path where the re-optimization raises while a strategy is perturbed,
\* every strategy of the catalog (the strategies of the portfolio are among
\* them) has exactly the attributes and the values it had before the call.
C6_RestoredOnEveryExit ==
    pc \in {"returned", "raised"} => strategies = frame.catalog_at_entry

\* C7: sensitivity_analysis perturbs only a private copy: at no step of the
\* call does a strategy of the shared catalog differ from its value before
\* the call, and what another run reads from the catalog during the call is
\* the catalog as it was before the call.
C7_CatalogUntouchedDuringCall ==
    /\ InSensitivityAnalysis => strategies = frame.catalog_at_entry
    /\ observed # <<>> => observed[1] = frame.catalog_at_entry

(***************************************************************************)
(* Properties of war gaming.                                               *)
(***************************************************************************)
Assessed == call.op = "assess_robustness"

\* the mean of outcome_degradation_pct over the applied attacks
MeanDegradation(results) ==
    RatOver(RatSum([i \in 1 .. Len(results) |-> results[i].outcome_degradation_pct],
                   Len(results)), Len(results))

\* the fraction of the applied attacks that are still viable
ViableFraction(results) ==
    Frac(Cardinality({i \in 1 .. Len(results) : results[i].still_viable}), Len(results))

\* C8: the robustness_score returned by assess_robustness equals
\* (100 - mean outcome_degradation_pct over the applied attacks) x (fraction
\* of the applied attacks that are still viable), clamped to [0, 100]; it is
\* always in [0, 100], also when a degradation percentage exceeds 100.
C8_RobustnessScoreFormula ==
    Assessed =>
        LET a == returned[1]
            product == RatMul(RatSub(Rat(100, 1), MeanDegradation(a.attack_results)),
                              ViableFraction(a.attack_results))
            clamped == IF product.num < 0 THEN Rat(0, 1)
                       ELSE IF product.num > 100 * product.den THEN Rat(100, 1)
                       ELSE product
        IN /\ a.robustness_score = clamped
           /\ a.robustness_score.num >= 0
           /\ a.robustness_score.num <= 100 * a.robustness_score.den

\* the clamp acts: an attack degrades by more than 100 percent and the
\* product is negative
C8_Witness ==
    /\ Assessed
    /\ \E i \in 1 .. Len(returned[1].attack_results) :
          returned[1].attack_results[i].outcome_degradation_pct.num
              > 100 * returned[1].attack_results[i].outcome_degradation_pct.den
    /\ RatMul(RatSub(Rat(100, 1), MeanDegradation(returned[1].attack_results)),
              ViableFraction(returned[1].attack_results)).num < 0
    /\ returned[1].robustness_score = Rat(0, 1)

\* C9: the resilience_rating is determined by the robustness_score with
\* inclusive lower bounds: >= 85 is A, 70 <= score < 85 is B, 55 <= score <
\* 70 is C, 40 <= score < 55 is D, below 40 is F.
C9_RatingThresholds ==
    Assessed =>
        LET n == returned[1].robustness_score.num
            d == returned[1].robustness_score.den
            rating == returned[1].resilience_rating
        IN /\ rating = "A" <=> n >= 85 * d
           /\ rating = "B" <=> (70 * d <= n /\ n < 85 * d)
           /\ rating = "C" <=> (55 * d <= n /\ n < 70 * d)
           /\ rating = "D" <=> (40 * d <= n /\ n < 55 * d)
           /\ rating = "F" <=> n < 40 * d

\* a score of exactly 85, rated A
C9_Witness ==
    /\ Assessed
    /\ returned[1].robustness_score = Rat(85, 1)
    /\ returned[1].resilience_rating = "A"

\* C10: for a portfolio with exactly one selected strategy and total risk
\* reduction > 0, the strategy-failure attack of generate_attacks targets
\* that strategy, and apply_attack yields a degraded risk_reduction of 0, a
\* degraded strategy count of 0 and still_viable false.
C10_SoleStrategyFails ==
    (/\ Assessed
     /\ Len(returned[1].portfolio.selected_strategies) = 1
     /\ returned[1].portfolio.total_risk_reduction > 0) =>
        \A i \in 1 .. Len(returned[1].attack_results) :
            LET r == returned[1].attack_results[i]
            IN r.attack.attack_type = "strategy_failure" =>
                  /\ r.attack.affected_strategies
                        = <<returned[1].portfolio.selected_strategies[1].id>>
                  /\ r.degraded_outcome.risk_reduction = Rat(0, 1)
                  /\ r.degraded_outcome.strategies = 0
                  /\ r.still_viable = FALSE

\* a one-strategy portfolio with positive risk reduction has been assessed and
\* a strategy-failure attack was applied to it
C10_Witness ==
    /\ Assessed
    /\ Len(returned[1].portfolio.selected_strategies) = 1
    /\ returned[1].portfolio.total_risk_reduction > 0
    /\ Len(strategies) >= 2
    /\ \E i \in 1 .. Len(returned[1].attack_results) :
          returned[1].attack_results[i].attack.attack_type = "strategy_failure"

(***************************************************************************)
(* Properties of the classification by horizon.                            *)
(***************************************************************************)
\* the strategy whose entry of the classification is the one that is kept
LastOfId(cat, i) == \A j \in Positions(cat) : j > i => cat[j].id # cat[i].id

\* C11: a strategy with time_estimate 10, cost_estimate 10,000 and category
\* process is classified as eligible for Immediate and for Tactical, and not
\* for Strategic.
C11_QuickProcessClassification ==
    \A i \in Positions(strategies) :
        (/\ strategies[i].time_estimate = 10
         /\ strategies[i].cost_estimate = 10000
         /\ strategies[i].category = "process"
         /\ LastOfId(strategies, i)) =>
            /\ "immediate" \in strategy_horizons[strategies[i].id]
            /\ "tactical" \in strategy_horizons[strategies[i].id]
            /\ "strategic" \notin strategy_horizons[strategies[i].id]

\* C11 as amended: a strategy with time_estimate 10, cost_estimate 10,000 and
\* category process is classified as eligible for Immediate only: not for
\* Tactical (its time_estimate is below 14 days) and not for Strategic.
C11_QuickProcessImmediateOnly ==
    \A i \in Positions(strategies) :
        (/\ strategies[i].time_estimate = 10
         /\ strategies[i].cost_estimate = 10000
         /\ strategies[i].category = "process"
         /\ LastOfId(strategies, i)) =>
            strategy_horizons[strategies[i].id] = {"immediate"}

\* the catalog of a scheduler holds such a strategy, next to another one, and
\* has been classified
C11_Witness ==
    /\ Len(strategies) >= 2
    /\ DOMAIN strategy_horizons = IdsOf(strategies)
    /\ \E i \in Positions(strategies) :
          /\ strategies[i].time_estimate = 10
          /\ strategies[i].cost_estimate = 10000
          /\ strategies[i].category = "process"
          /\ LastOfId(strategies, i)

(***************************************************************************)
(* Properties of the optimizer when nothing is affordable.                 *)
(***************************************************************************)
\* no non-empty selection of the catalog costs at most budget_limit: the
\* catalog is empty, or every strategy is too dear, or the budget constraint
\* cannot be met at all
NothingAffordable ==
    \A X \in Decisions(strategies) \ {{}} :
        ~BudgetConstraint(strategies, X, Rat(budget_limit, 1))

IsEmptyPortfolio(p) ==
    /\ p.selected_strategies = <<>>
    /\ p.total_cost = 0
    /\ p.total_risk_reduction = 0
    /\ p.total_timeline_days = 0

\* C12: when the catalog is empty, or no non-empty subset of the strategies
\* costs at most budget_limit, or the budget constraint is infeasible,
\* optimize_single_objective and get_optimal_portfolio return a portfolio
\* with no selected strategies and totals of 0.
C12_EmptyPortfolioWhenNothingAffordable ==
    (/\ call.op \in {"optimize_single_objective", "get_optimal_portfolio"}
     /\ NothingAffordable) => IsEmptyPortfolio(returned[1])

(***************************************************************************)
(* Properties of the construction of strategies.                           *)
(***************************************************************************)
WellFormed(s) ==
    /\ s.cost_min <= s.cost_estimate
    /\ s.cost_estimate <= s.cost_max
    /\ s.time_min <= s.time_estimate
    /\ s.time_estimate <= s.time_max
    /\ s.cost_estimate >= 0

\* C13: a Strategy whose cost or time triple violates min <= most-likely <=
\* max, or whose cost is negative, is rejected at construction; hence every
\* strategy of the catalog an optimizer call works on has cost_min <=
\* cost_estimate <= cost_max, time_min <= time_estimate <= time_max and a
\* non-negative cost.
C13_OnlyWellFormedStrategies ==
    (pc = "idle" /\ call.op = "optimize_single_objective") =>
        \A i \in Positions(strategies) : WellFormed(strategies[i])

(***************************************************************************)
(* Properties of repeated assessments.                                     *)
(***************************************************************************)
AssessedTwice == call.op = "assess_robustness" /\ Len(returned) = 2

\* C14: two assess_robustness runs on the same portfolio, catalog and
\* available_budget give the same robustness_score, the same
\* resilience_rating and, attack by attack, the same degradation percentage
\* and viability flag, whatever the generator gives to the Monte Carlo step
\* of the backup plan.
C14_AssessmentRepeatable ==
    AssessedTwice =>
        /\ returned[1].robustness_score = returned[2].robustness_score
        /\ returned[1].resilience_rating = returned[2].resilience_rating
        /\ Len(returned[1].attack_results) = Len(returned[2].attack_results)
        /\ \A i \in 1 .. Len(returned[1].attack_results) :
              /\ returned[1].attack_results[i].outcome_degradation_pct
                    = returned[2].attack_results[i].outcome_degradation_pct
              /\ returned[1].attack_results[i].still_viable
                    = returned[2].attack_results[i].still_viable

\* the two runs drew differently: the sampled bounds of their backup plans differ
C14_Witness ==
    /\ AssessedTwice
    /\ returned[1].backup_plan.selected_strategies # <<>>
    /\ returned[1].backup_plan.selected_strategies
          = returned[2].backup_plan.selected_strategies
    /\ returned[1].backup_plan.risk_reduction_p5
          # returned[2].backup_plan.risk_reduction_p5

(***************************************************************************)
(* Properties of the Monte Carlo generator.                                *)
(***************************************************************************)
\* C15: a monte_carlo_analysis call draws from a generator of its own: its
\* percentile bounds are those it computes from the generator it started
\* with, however its steps are interleaved with those of the other call.
C15_BoundsIndependentOfInterleaving ==
    \A t \in Threads :
        pc[t] = "done" =>
            returned[t][1] = monte_carlo_draws(frame[t].result, frame[t].n_simulations,
                                               observed[t][1]).result

(***************************************************************************)
(* Properties of the selection from the frontier.                          *)
(***************************************************************************)
\* the frontier that optimize_pareto computes for the catalog and the budget
Frontier == optimize_pareto(strategies, cbc, budget_limit)

\* a is at least as good as b for the tolerance: more risk reduction
\* (aggressive), less cost (conservative), a greater ratio of risk reduction
\* to cost, taken as 0 at cost 0 (balanced)
AsGoodAs(risk_tolerance, a, b) ==
    CASE risk_tolerance = "aggressive" -> a.total_risk_reduction >= b.total_risk_reduction
      [] risk_tolerance = "conservative" -> a.total_cost <= b.total_cost
      [] OTHER ->
            LET ra == IF a.total_cost > 0 THEN <<a.total_risk_reduction, a.total_cost>>
                      ELSE <<0, 1>>
                rb == IF b.total_cost > 0 THEN <<b.total_risk_reduction, b.total_cost>>
                      ELSE <<0, 1>>
            IN ra[1] * rb[2] >= rb[1] * ra[2]

\* the portfolio p without what monte_carlo_analysis wrote into it
WithoutBounds(p) ==
    [p EXCEPT !.cost_p5 = 0, !.cost_p95 = 0,
              !.risk_reduction_p5 = 0, !.risk_reduction_p95 = 0]

\* C16: get_optimal_portfolio returns a member of the frontier of
\* optimize_pareto for the same inputs: one that is best for the tolerance
\* (aggressive: greatest total_risk_reduction, conservative: least
\* total_cost, balanced: greatest total_risk_reduction / total_cost, 0 at
\* cost 0), and of several best the earliest of the frontier.
C16_SelectedFromFrontier ==
    call.op = "get_optimal_portfolio" =>
        \E fr \in {Frontier} : \E i \in 1 .. Len(fr) :
            /\ WithoutBounds(returned[1]) = WithoutBounds(fr[i])
            /\ returned[1].pareto_rank = i
            /\ \A j \in 1 .. Len(fr) : AsGoodAs(call.arg, fr[i], fr[j])
            /\ \A j \in 1 .. i - 1 : ~AsGoodAs(call.arg, fr[j], fr[i])

\* a balanced selection from a frontier with a portfolio of cost 0 and the
\* best ratio reached by two portfolios, the later of which is not returned
C16_Witness ==
    /\ call.op = "get_optimal_portfolio"
    /\ call.arg = "balanced"
    /\ \E fr \in {Frontier} :
          /\ \E j \in 1 .. Len(fr) : fr[j].total_cost = 0
          /\ \E j \in 1 .. Len(fr) :
                /\ j > returned[1].pareto_rank
                /\ AsGoodAs("balanced", fr[j], returned[1])

(***************************************************************************)
(* Properties of the backup plan.                                          *)
(***************************************************************************)
FailedIds(attack_results) ==
    UNION {Ids(attack_results[i].attack.affected_strategies) :
              i \in {k \in 1 .. Len(attack_results) :
                        attack_results[k].attack.attack_type = "strategy_failure"}}

\* C17: the backup plan of an assessment selects no strategy whose id is among
\* the affected strategies of a strategy-failure attack of that assessment,
\* selects only strategies of the catalog, and costs at most 0.6 times the
\* available budget.
C17_BackupPlanWithinReducedCatalog ==
    (call.op = "assess_robustness" /\ returned # <<>>) =>
        \E backup \in {returned[1].backup_plan} :
          \E failed \in {FailedIds(returned[1].attack_results)} :
            /\ \A i \in 1 .. Len(backup.selected_strategies) :
                  /\ backup.selected_strategies[i].id \notin failed
                  /\ \E j \in 1 .. Len(strategies) :
                        strategies[j] = backup.selected_strategies[i]
            /\ backup.total_cost * 10 <= 6 * call.arg

\* an assessment that failed a strategy of the catalog and whose backup plan
\* spends money on others
C17_Witness ==
    /\ call.op = "assess_robustness"
    /\ returned # <<>>
    /\ \E j \in 1 .. Len(strategies) :
          strategies[j].id \in FailedIds(returned[1].attack_results)
    /\ returned[1].backup_plan.selected_strategies # <<>>
    /\ returned[1].backup_plan.total_cost > 0

(***************************************************************************)
(* Properties of the stages of an assessment.                              *)
(***************************************************************************)
StageOrder ==
    {<<"idle", Stages[1]>>, <<Stages[Len(Stages)], "idle">>}
    \cup {<<Stages[i], Stages[i + 1]>> : i \in 1 .. Len(Stages) - 1}

InGenerationOrder(assessment) ==
    \E attacks \in {generate_attacks(assessment.portfolio, "low")} :
      /\ Len(assessment.attack_results) = Len(attacks)
      /\ \A i \in 1 .. Len(attacks) : assessment.attack_results[i].attack = attacks[i]

RiskSum(sel) == SeqSum(sel, "risk_reduction_pct")

HorizonPlanCapped(plan) ==
    /\ plan.risk_reduction = Min2(RiskSum(plan.strategies), 50)
    /\ plan.risk_reduction <= 50

\* C19: every portfolio the optimizer returns has total_risk_reduction =
\* min(sum of the selected risk reductions, 95), every horizon plan has
\* risk_reduction = min(sum, 50), and every multi-horizon plan has
\* total_risk_reduction = min(sum of the risk_reduction of its three horizon
\* plans, 95); none exceeds its cap.
C19_RiskReductionCapped ==
    \A i \in 1 .. Len(returned) :
        CASE call.op \in OptimizerOps ->
                /\ returned[i].total_risk_reduction =
                      Min2(RiskSum(returned[i].selected_strategies), 95)
                /\ returned[i].total_risk_reduction <= 95
          [] call.op = "optimize_horizon" -> HorizonPlanCapped(returned[i])
          [] call.op = "optimize_all_horizons" ->
                /\ HorizonPlanCapped(returned[i].immediate_plan)
                /\ HorizonPlanCapped(returned[i].tactical_plan)
                /\ HorizonPlanCapped(returned[i].strategic_plan)
                /\ returned[i].total_risk_reduction =
                      Min2(returned[i].immediate_plan.risk_reduction
                               + returned[i].tactical_plan.risk_reduction
                               + returned[i].strategic_plan.risk_reduction, 95)
                /\ returned[i].total_risk_reduction <= 95
          [] OTHER -> TRUE

\* a multi-horizon plan with a horizon cut to 50 and a total cut to 95
C19_Witness ==
    /\ call.op = "optimize_all_horizons"
    /\ returned # <<>>
    /\ RiskSum(returned[1].immediate_plan.strategies) > 50
    /\ returned[1].immediate_plan.risk_reduction
           + returned[1].tactical_plan.risk_reduction
           + returned[1].strategic_plan.risk_reduction > 95
    /\ returned[1].total_risk_reduction = 95

(***************************************************************************)
(* Properties of the recommendations.                                      *)
(***************************************************************************)
GenericRecommendations ==
    {"Consider diversifying portfolio across more strategies",
     "Prioritize strategies with higher confidence levels"}

CannedTypes == {"cost_overrun", "strategy_failure", "budget_cut", "key_person_leaves"}

ResultsAbove20(assessment) ==
    {i \in 1 .. Len(assessment.attack_results) :
        RatLess(Rat(20, 1), assessment.attack_results[i].outcome_degradation_pct)}

\* the generic recommendations come with a score below 60 and no
\* recommendation is in the list twice
GenericAndOnce(assessment) ==
    /\ assessment.robustness_score.num < 60 * assessment.robustness_score.den
          => GenericRecommendations \subseteq BagToSet(assessment.recommendations)
    /\ \A rec \in BagToSet(assessment.recommendations) :
          CopiesIn(rec, assessment.recommendations) = 1

\* C20: for every attack result with outcome_degradation_pct > 20, whatever
\* the type of its attack, there is a canned recommendation for that type and
\* the recommendations of the assessment contain it; with a robustness_score
\* below 60 they contain the two generic recommendations; and no
\* recommendation appears twice.
C20_CannedForEveryType ==
    (call.op = "assess_robustness" /\ returned # <<>>) =>
        /\ \A i \in ResultsAbove20(returned[1]) :
              \E rec \in Recommendation(returned[1].attack_results[i].attack.attack_type) :
                  BagIn(rec, returned[1].recommendations)
        /\ GenericAndOnce(returned[1])

\* C20, amended: the same for the results whose attack is a cost overrun, a
\* strategy failure, a budget cut or the loss of a key person; a result of
\* another type adds no recommendation, so that the list holds nothing but
\* the canned recommendations of those results and the generic ones.
C20_CannedForFourTypes ==
    (call.op = "assess_robustness" /\ returned # <<>>) =>
        /\ \A i \in ResultsAbove20(returned[1]) :
              returned[1].attack_results[i].attack.attack_type \in CannedTypes =>
                  \E rec \in Recommendation(
                                 returned[1].attack_results[i].attack.attack_type) :
                      BagIn(rec, returned[1].recommendations)
        /\ GenericAndOnce(returned[1])
        /\ \A rec \in BagToSet(returned[1].recommendations) :
              \/ rec \in GenericRecommendations
              \/ \E i \in ResultsAbove20(returned[1]) :
                    /\ returned[1].attack_results[i].attack.attack_type \in CannedTypes
                    /\ rec \in Recommendation(
                                   returned[1].attack_results[i].attack.attack_type)

\* an assessment below 60 in which the budget cut and the new risk both
\* degrade by more than 20 percent
C20_Witness ==
    /\ call.op = "assess_robustness"
    /\ returned # <<>>
    /\ returned[1].robustness_score.num < 60 * returned[1].robustness_score.den
    /\ \E i, j \in ResultsAbove20(returned[1]) :
          /\ returned[1].attack_results[i].attack.attack_type = "budget_cut"
          /\ returned[1].attack_results[j].attack.attack_type = "new_risk_emerges"
    /\ BagIn("Pre-secure multi-quarter funding commitment", returned[1].recommendations)

(***************************************************************************)
(* Properties of the scheduler: eligibility, budgets, greedy selection.    *)
(***************************************************************************)
\* the horizons whose condition a strategy meets
EligibleByRule(s) ==
    {h \in Horizons :
        \/ h = "immediate" /\ s.time_estimate <= 30 /\ s.cost_estimate < 50000
        \/ h = "tactical" /\ 14 <= s.time_estimate /\ s.time_estimate <= 180
        \/ h = "strategic" /\ (\/ s.time_estimate >= 60
                               \/ s.cost_estimate >= 200000
                               \/ s.category = "technology")}

\* C21: the eligibility set of every strategy is non-empty; a horizon is in
\* it iff the strategy meets the condition of the horizon (Immediate: at most
\* 30 days and less than 50,000; Tactical: 14 to 180 days; Strategic: at least
\* 60 days, or at least 200,000, or category technology), and it is exactly
\* {Tactical} when the strategy meets none of the three.
C21_EligibilityByRule ==
    pc # "constructing" =>
        \A i \in Positions(strategies) :
            LastOfId(strategies, i) =>
                /\ strategy_horizons[strategies[i].id] # {}
                /\ EligibleByRule(strategies[i]) # {}
                      => strategy_horizons[strategies[i].id]
                             = EligibleByRule(strategies[i])
                /\ EligibleByRule(strategies[i]) = {}
                      => strategy_horizons[strategies[i].id] = {"tactical"}

\* a scheduler constructed over a strategy of 13 days and 50,000, which
\* meets none of the conditions
C21_Witness ==
    /\ pc # "constructing"
    /\ \E i \in Positions(strategies) :
          /\ LastOfId(strategies, i)
          /\ strategies[i].time_estimate = 13
          /\ strategies[i].cost_estimate = 50000
          /\ EligibleByRule(strategies[i]) = {}
          /\ strategy_horizons[strategies[i].id] = {"tactical"}

InSomePlan(plan, s) ==
    \E h \in {plan.immediate_plan, plan.tactical_plan, plan.strategic_plan} :
        \E k \in 1 .. Len(h.strategies) : h.strategies[k] = s

\* C22: a plan returned by optimize_horizon costs at most the budget of the
\* call, and the plan of optimize_all_horizons with the default allocation
\* (25, 45 and 30 percent of total_budget) costs at most total_budget.
C22_PlansWithinBudget ==
    /\ call.op = "optimize_horizon" =>
          RatLeq(Rat(returned[1].total_cost, 1), call.arg.budget)
    /\ (call.op = "optimize_all_horizons" /\ call.arg = <<>>) =>
          /\ returned[1].total_cost <= total_budget
          /\ returned[1].total_cost =
                returned[1].immediate_plan.total_cost
                    + returned[1].tactical_plan.total_cost
                    + returned[1].strategic_plan.total_cost

\* a default plan that spends money and leaves out a strategy of the catalog
C22_Witness ==
    /\ call.op = "optimize_all_horizons"
    /\ call.arg = <<>>
    /\ returned[1].total_cost > 0
    /\ \E i \in Positions(strategies) : ~InSomePlan(returned[1], strategies[i])

\* the positions of the catalog that are candidates of a call of
\* optimize_horizon
CandidatePositions(arg) ==
    {i \in Positions(strategies) :
        /\ arg.horizon \in strategy_horizons[strategies[i].id]
        /\ strategies[i].id \notin arg.excluded
        /\ strategies[i].time_estimate <= HorizonConfig(arg.horizon).max_days}

\* risk_reduction_pct / cost_estimate, or 0 for a cost of 0, times 1.5 for a
\* category the horizon prefers
ClaimedScore(s, horizon) ==
    IF s.cost_estimate = 0 THEN Rat(0, 1)
    ELSE IF s.category \in HorizonConfig(horizon).preferred_categories
         THEN Rat(3 * s.risk_reduction_pct, 2 * s.cost_estimate)
         ELSE Rat(s.risk_reduction_pct, s.cost_estimate)

\* candidate i is visited before candidate j
VisitedBefore(arg, i, j) ==
    \/ RatLess(ClaimedScore(strategies[j], arg.horizon),
               ClaimedScore(strategies[i], arg.horizon))
    \/ /\ RatEq(ClaimedScore(strategies[i], arg.horizon),
                ClaimedScore(strategies[j], arg.horizon))
       /\ i < j

\* the first-fit set: a candidate is in it iff it fits together with the
\* members visited before it
FirstFit(arg, G) ==
    \A i \in CandidatePositions(arg) :
        i \in G <=>
            RatLeq(Rat(strategies[i].cost_estimate
                           + SumF([j \in Positions(strategies) |->
                                       strategies[j].cost_estimate],
                                  {j \in G : VisitedBefore(arg, j, i)}), 1),
                   arg.budget)

\* C23: the plan of optimize_horizon holds exactly the first-fit greedy set
\* of its candidates (eligible for the horizon, not excluded, time_estimate
\* within max_days), visited by descending priority score with ties in
\* catalog order: a candidate is selected iff it fits in the budget together
\* with those selected before it, and one that does not fit is passed over.
C23_FirstFitGreedy ==
    call.op = "optimize_horizon" =>
        \E G \in SUBSET CandidatePositions(call.arg) :
            /\ FirstFit(call.arg, G)
            /\ Len(returned[1].strategies) = Cardinality(G)
            /\ \A i \in G :
                  returned[1].strategies[
                      1 + Cardinality({j \in G : VisitedBefore(call.arg, j, i)})]
                  = strategies[i]

\* a plan that passes over a candidate that does not fit and takes one
\* visited after it
C23_Witness ==
    /\ call.op = "optimize_horizon"
    /\ \E i, j \in CandidatePositions(call.arg) :
          /\ VisitedBefore(call.arg, i, j)
          /\ \A k \in 1 .. Len(returned[1].strategies) :
                returned[1].strategies[k] # strategies[i]
          /\ \E k \in 1 .. Len(returned[1].strategies) :
                returned[1].strategies[k] = strategies[j]
          /\ strategies[j].cost_estimate > 0

(***************************************************************************)
(* Properties of the attack results.                                       *)
(***************************************************************************)
\* C24: in every attack result the degraded risk_reduction is at least 0 and
\* at most the original risk_reduction, and outcome_degradation_pct is
\* between 0 and 100: also for the new risk that emerges on a portfolio whose
\* risk reduction is below 15.
C24_DegradedWithinRange ==
    (call.op = "assess_robustness" /\ returned # <<>>) =>
        \A i \in 1 .. Len(returned[1].attack_results) :
            \E r \in {returned[1].attack_results[i]} :
                /\ RatLeq(Rat(0, 1), r.degraded_outcome.risk_reduction)
                /\ RatLeq(r.degraded_outcome.risk_reduction,
                          r.original_outcome.risk_reduction)
                /\ RatLeq(Rat(0, 1), r.outcome_degradation_pct)
                /\ RatLeq(r.outcome_degradation_pct, Rat(100, 1))

\* C25: timeline_limit has no effect.  Whatever timeline_limit a call is made
\* with, the problem solved has the budget constraint as its only constraint,
\* and optimize_single_objective, optimize_pareto and get_optimal_portfolio
\* return what they return for every other timeline_limit; the selection of
\* optimize_single_objective is within budget_limit.
OtherLimitResult(l) ==
    CASE call.op = "optimize_single_objective" ->
            <<optimize_single_objective_args(strategies, call.arg.objective,
                                             Rat(budget_limit, 1), l, cbc)>>
      [] call.op = "optimize_pareto" ->
            optimize_pareto_args(strategies, budget_limit, l, cbc)
      [] call.op = "get_optimal_portfolio" ->
            <<get_optimal_portfolio_args(strategies, budget_limit, l,
                                         call.arg.risk_tolerance, cbc)>>
      [] OTHER -> returned

C26_CostObjectiveSelectsNothing ==
    (/\ call.op = "optimize_single_objective"
     /\ call.arg.objective = "cost"
     /\ budget_limit >= 0
     /\ \A i \in Positions(strategies) : strategies[i].cost_estimate >= 0) =>
        /\ returned[1].total_cost = 0
        /\ (\A i \in Positions(strategies) : strategies[i].cost_estimate > 0) =>
              returned[1].selected_strategies = <<>>

\* the cost objective leaves out strategies that the budget would pay for
C26_Witness ==
    /\ call.op = "optimize_single_objective"
    /\ call.arg.objective = "cost"
    /\ strategies # <<>>
    /\ \A i \in Positions(strategies) :
          /\ strategies[i].cost_estimate > 0
          /\ strategies[i].cost_estimate <= budget_limit
    /\ returned[1].selected_strategies = <<>>

\* the cost objective selects strategies that cost nothing
C26_WitnessFree ==
    /\ call.op = "optimize_single_objective"
    /\ call.arg.objective = "cost"
    /\ returned[1].selected_strategies # <<>>
    /\ returned[1].total_cost = 0

\* C27: in sensitivity_analysis with parameter 'cost' on a portfolio whose
\* baseline risk reduction is above 0, the value recorded for every selected
\* strategy is (min(sum of risk_reduction_pct over the whole catalog, 95)
\* - baseline) / baseline, the same for all of them, and it is not negative.
ClaimedSensitivity ==
    Rat(Min2(SeqSum(frame.catalog_at_entry, "risk_reduction_pct"), RiskCap)
            - frame.base_value,
        frame.base_value)

C27_CostSensitivityIsHeadroom ==
    (/\ pc \in {"loop", "perturbed", "reoptimized", "returned"}
     /\ frame.parameter = "cost"
     /\ frame.base_value > 0) =>
        /\ \A id \in DOMAIN frame.sensitivities :
              /\ RatEq(frame.sensitivities[id], ClaimedSensitivity)
              /\ RatLeq(Rat(0, 1), frame.sensitivities[id])
        /\ pc = "returned" =>
              /\ returned = <<frame.sensitivities>>
              /\ DOMAIN frame.sensitivities =
                    {strategies[frame.selected[k]].id : k \in 1 .. Len(frame.selected)}

\* the analysis of a portfolio that left a strategy of the catalog out
\* returns a positive value
C27_Witness ==
    /\ pc = "returned"
    /\ frame.parameter = "cost"
    /\ frame.base_value > 0
    /\ \E id \in DOMAIN returned[1] : RatLess(Rat(0, 1), returned[1][id])

\* the analysis of a portfolio of two strategies returns two values
C27_WitnessTwo ==
    /\ pc = "returned"
    /\ frame.parameter = "cost"
    /\ frame.base_value > 0
    /\ Cardinality(DOMAIN returned[1]) = 2

\* C28: apply_attack has no rule for the vendor-delay and the
\* regulatory-change attack.  Every assessment holds one result of each of
\* the two, and in it the degraded outcome equals the original outcome in
\* all four fields, damage and recovery_options are empty,
\* outcome_degradation_pct is 0 and still_viable is true; both results are
\* among those that the mean degradation and the viability fraction of the
\* score are taken over.
Unhandled == {"vendor_delay", "regulatory_change"}

ResultsOfType(results, type) ==
    {i \in 1 .. Len(results) : results[i].attack.attack_type = type}

AssessedEmpty ==
    /\ Assessed
    /\ returned[1].portfolio.selected_strategies = <<>>
    /\ returned[1].portfolio.total_risk_reduction = 0

C29_EmptyPortfolioRatedA ==
    AssessedEmpty =>
        LET results == returned[1].attack_results
        IN /\ Len(results) = 8
           /\ [i \in 1 .. 8 |-> results[i].attack.attack_type]
                 = [i \in 1 .. 8 |-> attack_library[i].attack_type]
           /\ \A i \in 1 .. Len(results) :
                 /\ RatEq(results[i].outcome_degradation_pct, Rat(0, 1))
                 /\ results[i].still_viable
                       <=> results[i].attack.attack_type # "new_risk_emerges"
                 /\ results[i].attack.attack_type = "new_risk_emerges" =>
                       RatEq(results[i].degraded_outcome.risk_reduction, Rat(-15, 1))
           /\ Cardinality({i \in 1 .. Len(results) : results[i].still_viable}) = 7
           /\ RatEq(returned[1].robustness_score, Rat(175, 2))
           /\ returned[1].resilience_rating = "A"

\* an empty portfolio of a catalog that has strategies is assessed
C29_Witness ==
    /\ AssessedEmpty
    /\ strategies # <<>>
    /\ returned[1].resilience_rating = "A"

\* C30: if budget_limit > 0 and every strategy of the catalog costs more than
\* 0.3 x budget_limit, get_optimal_portfolio with risk_tolerance
\* 'conservative' returns the empty portfolio, of total_cost 0 and
\* total_risk_reduction 0, also when a strategy fits within budget_limit; and
\* the backup plan of an assessment is empty whenever every strategy that no
\* strategy-failure attack targeted costs more than 0.18 x available_budget.
AllDearerThan(cat, num, den, budget) ==
    \A i \in Positions(cat) : den * cat[i].cost_estimate > num * budget

C30_ConservativeSelectsNothing ==
    /\ (/\ call.op = "get_optimal_portfolio"
        /\ call.arg = "conservative"
        /\ budget_limit > 0
        /\ AllDearerThan(strategies, 3, 10, budget_limit)) =>
            /\ returned[1].selected_strategies = <<>>
            /\ returned[1].total_cost = 0
            /\ returned[1].total_risk_reduction = 0
    /\ (/\ Assessed
        /\ call.arg > 0
        /\ AllDearerThan(SelectSeq(strategies,
                             LAMBDA s : s.id \notin FailedIds(returned[1].attack_results)),
                         18, 100, call.arg)) =>
            /\ returned[1].backup_plan.selected_strategies = <<>>
            /\ returned[1].backup_plan.total_cost = 0
            /\ returned[1].backup_plan.total_risk_reduction = 0

\* the conservative portfolio is empty although a strategy of the catalog
\* fits within budget_limit
C30_Witness ==
    /\ call.op = "get_optimal_portfolio"
    /\ call.arg = "conservative"
    /\ budget_limit > 0
    /\ AllDearerThan(strategies, 3, 10, budget_limit)
    /\ \E i \in Positions(strategies) : strategies[i].cost_estimate <= budget_limit
    /\ returned[1].selected_strategies = <<>>

\* the backup plan is empty although a strategy that did not fail fits
\* within 0.6 x available_budget
C30_WitnessBackup ==
    /\ Assessed
    /\ AllDearerThan(SelectSeq(strategies,
                         LAMBDA s : s.id \notin FailedIds(returned[1].attack_results)),
                     18, 100, call.arg)
    /\ \E i \in Positions(strategies) :
          /\ strategies[i].id \notin FailedIds(returned[1].attack_results)
          /\ 10 * strategies[i].cost_estimate <= 6 * call.arg
    /\ returned[1].backup_plan.selected_strategies = <<>>

====
